---- MODULE Spec2Model ----
(***************************************************************************)
(* Model of src/src/transform_integrated.py: the knowledge base of artists *)
(* and albums (_build_knowledge), the enrichment of every record           *)
(* (_apply_ids_and_enrich) and the merge by track_id with source priority  *)
(* (_integrate, _merge_nested, _merge_artist_lists).                       *)
(*                                                                         *)
(* Python values are tuples of strings: the first element is the type tag, *)
(* the rest are the atoms of the value (an atom is a run of characters     *)
(* that no operation of the module splits).  A dict with a fixed set of    *)
(* possible keys is a function from the keys to values, Absent marking a   *)
(* key the dict does not hold.  A dict whose insertion order matters is a  *)
(* sequence of <<key, value>> pairs.                                       *)
(***************************************************************************)
EXTENDS Integers, Sequences, FiniteSets, TLC

VARIABLES
    pc,                        \* position in main_transform / transform_integrated
    frames,                    \* per source, the DataFrame read from the raw file
                               \* and the one its _clean_* function returned
    idx,                       \* number of records the current loop has processed
    pending,                   \* what the running loop over a set has still to yield
    sp_records, global_records, yt_records,      \* the three loaded streams
    loaded,                    \* the streams as loaded (history, never written)
    artist_name_to_id, artist_name_to_info, artist_id_to_info,
    artist_names_without_id,
    album_key_to_id, album_key_to_info, album_id_to_info,
    album_keys_without_id,
    sp_enriched, global_enriched, yt_enriched,
    integrated,                \* tid -> {track, album, artists}, insertion ordered
    shares,                    \* <<tid, n, part>>: the part of the entry of tid is
                               \* the very object of the n-th folded record
    output_records,            \* what is handed to the writer
    tables,                    \* load_schema: the DataFrames built for the tables
                               \* and the rows the database holds
    mi_base0, mi_base, mi_prev, mi_new, mi_calls   \* a direct use of _merge_info

kbvars == <<artist_name_to_id, artist_name_to_info, artist_id_to_info,
            artist_names_without_id, album_key_to_id, album_key_to_info,
            album_id_to_info, album_keys_without_id>>
recvars == <<sp_records, global_records, yt_records>>
enrvars == <<sp_enriched, global_enriched, yt_enriched>>
mivars == <<mi_base0, mi_base, mi_prev, mi_new, mi_calls>>
vars == <<pc, idx, pending, frames, tables, recvars, loaded, kbvars, enrvars, integrated,
          shares, output_records, mivars>>

----------------------------------------------------------------------------
(* Python values *)

Absent == <<"#absent">>
None == <<"#none">>
EmptyStr == <<"#str">>
EmptyList == <<"#list">>
EmptyDict == <<"#dict">>
Zero == <<"#int", "0">>
FalseV == <<"#bool", "False">>

S(atoms) == <<"#str">> \o atoms
IntV(digits) == <<"#int">> \o digits

\* bool(v): what `if v` and `not v` test
Truthy(v) == v \notin {Absent, None, EmptyStr, EmptyList, EmptyDict, Zero, FalseV}

\* str(v)
PyStr(v) ==
    IF v[1] = "#str" THEN v
    ELSE IF v[1] \in {"#int", "#bool"} THEN S(Tail(v))
    ELSE IF v = EmptyList THEN S(<<"[]">>)
    ELSE IF v = EmptyDict THEN S(<<"{}">>)
    ELSE S(<<"None">>)

\* d.get(k)
DGet(d, k) == IF d[k] = Absent THEN None ELSE d[k]

\* {} over the keys K, and bool(d)
NoDict(K) == [k \in K |-> Absent]
NonEmptyDict(d) == \E k \in DOMAIN d : d[k] # Absent

TrackKeys == {"track_id", "track_name"}
AlbumKeys == {"album_id", "album_name", "album_type", "album_artist_owner_id"}
ArtistKeys == {"artist_id", "artist_name", "artist_genres"}

----------------------------------------------------------------------------
(* Insertion-ordered dicts *)

Has(d, k) == \E n \in 1..Len(d) : d[n][1] = k
Get(d, k) == d[CHOOSE n \in 1..Len(d) : d[n][1] = k][2]
GetOr(d, k, dflt) == IF Has(d, k) THEN Get(d, k) ELSE dflt
\* Put as `del d[k]; d[k] = v`: a key that is set again moves to the end
PutMovingToEnd(d, k, v) ==
    Append(SelectSeq(d, LAMBDA item : item[1] # k), <<k, v>>)

Put(d, k, v) ==
    IF Has(d, k)
    THEN [n \in 1..Len(d) |-> IF d[n][1] = k THEN <<k, v>> ELSE d[n]]
    ELSE Append(d, <<k, v>>)
KeysOf(d) == [n \in 1..Len(d) |-> d[n][1]]
ValuesOf(d) == [n \in 1..Len(d) |-> d[n][2]]
KeySet(d) == {d[n][1] : n \in 1..Len(d)}

----------------------------------------------------------------------------
(* Helpers generales *)

IsSpace(a) == a = " "

\* str.lower() on one atom
Lower(a) ==
    CASE a = "Jane" -> "jane"
      [] a = "None" -> "none"
      [] a = "X" -> "x"
      [] OTHER -> a

RECURSIVE LStrip(_)
LStrip(s) == IF s # <<>> /\ IsSpace(Head(s)) THEN LStrip(Tail(s)) ELSE s

RECURSIVE RStrip(_)
RStrip(s) ==
    IF s # <<>> /\ IsSpace(s[Len(s)]) THEN RStrip(SubSeq(s, 1, Len(s) - 1)) ELSE s

\* " ".join(s.split()) on a stripped s: every run of spaces becomes one space
RECURSIVE JoinSplit(_)
JoinSplit(s) ==
    IF s = <<>> THEN <<>>
    ELSE IF IsSpace(Head(s))
         THEN <<" ">> \o JoinSplit(LStrip(s))
         ELSE <<Head(s)>> \o JoinSplit(Tail(s))

LowerAll(s) == [n \in 1..Len(s) |-> Lower(s[n])]

_normalize_name(name) ==
    IF name = None THEN None
    ELSE LET s == RStrip(LStrip(Tail(PyStr(name)))) IN
         IF s = <<>> THEN None
         ELSE S(LowerAll(JoinSplit(s)))

\* base[k] in (None, "", [], {})
IsBlank(v) == v \in {None, EmptyStr, EmptyList, EmptyDict}

\* _merge_info without the test of base[k]: a value of new replaces base's
MergeInfoOverwriting(base, new) ==
    [k \in DOMAIN base |->
        IF new[k] = Absent \/ new[k] = None THEN base[k] ELSE new[k]]

\* _merge_info with `not base[k]` for the test of base[k]: 0 and False count
\* as empty
MergeInfoFalsy(base, new) ==
    [k \in DOMAIN base |->
        IF new[k] = Absent \/ new[k] = None THEN base[k]
        ELSE IF ~Truthy(base[k]) THEN new[k]
        ELSE base[k]]

_merge_info(base, new) ==
    [k \in DOMAIN base |->
        IF new[k] = Absent \/ new[k] = None THEN base[k]
        ELSE IF base[k] = Absent \/ IsBlank(base[k]) THEN new[k]
        ELSE base[k]]

----------------------------------------------------------------------------
(* Fase 1 y 2: base de conocimiento de artistas y albumes *)

RECURSIVE FoldLeft(_, _, _)
FoldLeft(Op(_, _), acc, s) ==
    IF s = <<>> THEN acc
    ELSE LET next == Op(acc, Head(s)) IN FoldLeft(Op, next, Tail(s))

\* the eight collections of _build_knowledge as one value
KB == [artist_name_to_id |-> artist_name_to_id,
       artist_name_to_info |-> artist_name_to_info,
       artist_id_to_info |-> artist_id_to_info,
       artist_names_without_id |-> artist_names_without_id,
       album_key_to_id |-> album_key_to_id,
       album_key_to_info |-> album_key_to_info,
       album_id_to_info |-> album_id_to_info,
       album_keys_without_id |-> album_keys_without_id]

EmptyKB == [artist_name_to_id |-> <<>>, artist_name_to_info |-> <<>>,
            artist_id_to_info |-> <<>>, artist_names_without_id |-> {},
            album_key_to_id |-> <<>>, album_key_to_info |-> <<>>,
            album_id_to_info |-> <<>>, album_keys_without_id |-> {}]

\* d.setdefault(k, {}) followed by _merge_info(d[k], new)
MergeInto(d, k, new) == Put(d, k, _merge_info(GetOr(d, k, NoDict(DOMAIN new)), new))

\* ScanArtist without `norm not in artist_name_to_id`: the last id seen for a
\* name replaces the earlier one
ScanArtistLastWins(k, artist) ==
    LET norm == _normalize_name(DGet(artist, "artist_name"))
        aid == DGet(artist, "artist_id")
        k1 == IF norm # None
              THEN [k EXCEPT !.artist_name_to_info = MergeInto(@, norm, artist)]
              ELSE k
    IN  IF Truthy(aid)
        THEN [k1 EXCEPT
                !.artist_id_to_info = MergeInto(@, aid, artist),
                !.artist_name_to_id = IF norm # None THEN Put(@, norm, aid) ELSE @]
        ELSE IF norm # None
             THEN [k1 EXCEPT !.artist_names_without_id = @ \cup {norm}]
             ELSE k1

\* one artist of the scan
ScanArtist(k, artist) ==
    LET name == DGet(artist, "artist_name")
        norm == _normalize_name(name)
        aid == DGet(artist, "artist_id")
        k1 == IF norm # None
              THEN [k EXCEPT !.artist_name_to_info = MergeInto(@, norm, artist)]
              ELSE k
    IN  IF Truthy(aid)
        THEN [k1 EXCEPT
                !.artist_id_to_info = MergeInto(@, aid, artist),
                !.artist_name_to_id =
                    IF norm # None /\ ~Has(@, norm) THEN Put(@, norm, aid) ELSE @]
        ELSE IF norm # None
             THEN [k1 EXCEPT !.artist_names_without_id = @ \cup {norm}]
             ELSE k1

\* the album key of the scan: (album_name_norm, owner_id or owner_norm)
ScanAlbumKey(album, artists) ==
    LET owner_id == DGet(album, "album_artist_owner_id")
        owner_norm == IF ~Truthy(owner_id) /\ artists # <<>>
                      THEN _normalize_name(DGet(artists[1], "artist_name"))
                      ELSE None
    IN  <<_normalize_name(DGet(album, "album_name")),
          IF Truthy(owner_id) THEN owner_id ELSE owner_norm>>

\* ScanAlbum without `key not in album_key_to_id`: the last album_id seen for
\* a key replaces the earlier one
ScanAlbumLastWins(k, album, artists) ==
    IF ~Truthy(DGet(album, "album_name")) THEN k
    ELSE LET key == ScanAlbumKey(album, artists)
             aid_album == DGet(album, "album_id")
             k1 == [k EXCEPT !.album_key_to_info = MergeInto(@, key, album)]
         IN  IF Truthy(aid_album)
             THEN [k1 EXCEPT
                     !.album_id_to_info = MergeInto(@, aid_album, album),
                     !.album_key_to_id = Put(@, key, aid_album)]
             ELSE [k1 EXCEPT !.album_keys_without_id = @ \cup {key}]

\* ScanAlbum with lines 146-147 under the test of line 148: only the first
\* album_id of a key gets an attribute entry
ScanAlbumFirstIdOnly(k, album, artists) ==
    IF ~Truthy(DGet(album, "album_name")) THEN k
    ELSE LET key == ScanAlbumKey(album, artists)
             aid_album == DGet(album, "album_id")
             k1 == [k EXCEPT !.album_key_to_info = MergeInto(@, key, album)]
         IN  IF Truthy(aid_album)
             THEN IF Has(k1.album_key_to_id, key) THEN k1
                  ELSE [k1 EXCEPT
                          !.album_id_to_info = MergeInto(@, aid_album, album),
                          !.album_key_to_id = Put(@, key, aid_album)]
             ELSE [k1 EXCEPT !.album_keys_without_id = @ \cup {key}]

\* the album of one record of the scan
ScanAlbum(k, album, artists) ==
    IF ~Truthy(DGet(album, "album_name")) THEN k
    ELSE LET key == ScanAlbumKey(album, artists)
             aid_album == DGet(album, "album_id")
             k1 == [k EXCEPT !.album_key_to_info = MergeInto(@, key, album)]
         IN  IF Truthy(aid_album)
             THEN [k1 EXCEPT
                     !.album_id_to_info = MergeInto(@, aid_album, album),
                     !.album_key_to_id =
                         IF ~Has(@, key) THEN Put(@, key, aid_album) ELSE @]
             ELSE [k1 EXCEPT !.album_keys_without_id = @ \cup {key}]

\* rec[key] is the float nan that lines 359-368 give to a row that lacks a
\* column other rows of its file have; a record holds the names of such keys
\* in the field nan, and an empty sub-object in their place
IsNaN(rec, key) == "nan" \in DOMAIN rec /\ key \in rec.nan

\* lines 98-100 keep a nan (it is truthy): iterating it (line 103) raises
\* TypeError, album.get (line 127) AttributeError
ScanRaises(rec) == IsNaN(rec, "artists") \/ IsNaN(rec, "album")

\* one iteration of `for rec in all_records`
ScanRecord(k, rec) ==
    LET k1 == FoldLeft(ScanArtist, k, rec.artists)
    IN  ScanAlbum(k1, rec.album, rec.artists)

SynthArtistId(norm) == S(<<"synth:artist:">> \o Tail(PyStr(norm)))

\* SynthAlbumId without the owner: every album of a name gets one id
SynthAlbumIdOwnerless(album_name_norm, owner_part) ==
    S(<<"synth:album:">> \o Tail(PyStr(album_name_norm)) \o <<"::owner:", "none">>)

SynthAlbumId(album_name_norm, owner_part) ==
    LET owner_label == IF Truthy(owner_part) THEN owner_part ELSE S(<<"none">>)
    IN  S(<<"synth:album:">> \o Tail(PyStr(album_name_norm))
          \o <<"::owner:">> \o Tail(PyStr(owner_label)))

\* for norm in artist_names_without_id
MintArtist(k, norm) ==
    IF Has(k.artist_name_to_id, norm) THEN k
    ELSE [k EXCEPT
            !.artist_name_to_id = Put(@, norm, SynthArtistId(norm)),
            !.artist_id_to_info =
                Put(@, SynthArtistId(norm),
                    GetOr(k.artist_name_to_info, norm, NoDict(ArtistKeys)))]

\* ConsolidateArtist with the arguments of _merge_info exchanged: what was
\* gathered by name goes before what was gathered by id
ConsolidateArtistNameFirst(k, item) ==
    LET info_name == GetOr(k.artist_name_to_info, item[1], NoDict(ArtistKeys))
    IN  IF NonEmptyDict(info_name)
        THEN [k EXCEPT !.artist_id_to_info =
                Put(@, item[2],
                    _merge_info(info_name, GetOr(@, item[2], NoDict(ArtistKeys))))]
        ELSE k

\* for norm, aid in artist_name_to_id.items()
ConsolidateArtist(k, item) ==
    LET info_name == GetOr(k.artist_name_to_info, item[1], NoDict(ArtistKeys))
    IN  IF NonEmptyDict(info_name)
        THEN [k EXCEPT !.artist_id_to_info = MergeInto(@, item[2], info_name)]
        ELSE k

\* MintAlbum with the test of line 174 inverted: `if key in album_key_to_id`
MintAlbumInverted(k, key) ==
    IF ~Has(k.album_key_to_id, key) THEN k
    ELSE [k EXCEPT
            !.album_key_to_id = Put(@, key, SynthAlbumId(key[1], key[2])),
            !.album_id_to_info =
                Put(@, SynthAlbumId(key[1], key[2]),
                    GetOr(k.album_key_to_info, key, NoDict(AlbumKeys)))]

\* for key in album_keys_without_id
MintAlbum(k, key) ==
    IF Has(k.album_key_to_id, key) THEN k
    ELSE [k EXCEPT
            !.album_key_to_id = Put(@, key, SynthAlbumId(key[1], key[2])),
            !.album_id_to_info =
                Put(@, SynthAlbumId(key[1], key[2]),
                    GetOr(k.album_key_to_info, key, NoDict(AlbumKeys)))]

\* for key, aid in album_key_to_id.items()
ConsolidateAlbum(k, item) ==
    LET info_key == GetOr(k.album_key_to_info, item[1], NoDict(AlbumKeys))
    IN  IF NonEmptyDict(info_key)
        THEN [k EXCEPT !.album_id_to_info = MergeInto(@, item[2], info_key)]
        ELSE k

\* the orders in which a set can be iterated
Orders(T) ==
    {o \in [1..Cardinality(T) -> T] :
        \A m, n \in 1..Cardinality(T) : m # n => o[m] # o[n]}

\* Fase 2, the two sets being iterated in the orders names and keys
Phase2(k, names, keys) ==
    LET k1 == FoldLeft(MintArtist, k, names)
        k2 == FoldLeft(ConsolidateArtist, k1, k1.artist_name_to_id)
        k3 == FoldLeft(MintAlbum, k2, keys)
    IN  FoldLeft(ConsolidateAlbum, k3, k3.album_key_to_id)

----------------------------------------------------------------------------
(* Fase 3: aplicar IDs y enriquecer cada objeto *)

\* one artist of a record; acc.kb is the knowledge base, acc.artists the
\* artists of the record already treated
EnrichArtist(acc, artist) ==
    LET k == acc.kb
        norm == _normalize_name(DGet(artist, "artist_name"))
        aid0 == DGet(artist, "artist_id")
        lookup == ~Truthy(aid0) /\ norm # None
        found == GetOr(k.artist_name_to_id, norm, None)
        aid == IF ~lookup THEN aid0
               ELSE IF Truthy(found) THEN found
               ELSE SynthArtistId(norm)
        k1 == IF lookup /\ ~Truthy(found)
              THEN [k EXCEPT !.artist_name_to_id = Put(@, norm, aid)]
              ELSE k
        a1 == IF lookup THEN [artist EXCEPT !["artist_id"] = aid] ELSE artist
        info == GetOr(k.artist_id_to_info, aid, NoDict(ArtistKeys))
        a2 == IF Truthy(aid) /\ NonEmptyDict(info) THEN _merge_info(a1, info) ELSE a1
    IN  [kb |-> k1, artists |-> Append(acc.artists, a2)]

\* EnrichAlbum without the id made on the spot when the key is unknown
EnrichAlbumLookupOnly(k, album, artists) ==
    LET album_name == DGet(album, "album_name")
        album_name_norm == IF Truthy(album_name) THEN _normalize_name(album_name)
                           ELSE None
        owner_id_candidate == IF artists # <<>> THEN DGet(artists[1], "artist_id")
                              ELSE None
        b1 == IF ~Truthy(DGet(album, "album_artist_owner_id"))
                 /\ Truthy(owner_id_candidate)
              THEN [album EXCEPT !["album_artist_owner_id"] = owner_id_candidate]
              ELSE album
        key == <<album_name_norm, DGet(b1, "album_artist_owner_id")>>
        lookup == album_name_norm # None /\ ~Truthy(DGet(b1, "album_id"))
        b2 == IF lookup
              THEN [b1 EXCEPT !["album_id"] = GetOr(k.album_key_to_id, key, None)]
              ELSE b1
        aid_album == DGet(b2, "album_id")
        info_album == GetOr(k.album_id_to_info, aid_album, NoDict(AlbumKeys))
        b3 == IF Truthy(aid_album) /\ NonEmptyDict(info_album)
              THEN _merge_info(b2, info_album) ELSE b2
    IN  [kb |-> k, album |-> b3]

\* EnrichAlbum with the arguments of _merge_info exchanged: what the
\* knowledge base holds goes before what the record holds
EnrichAlbumInfoFirst(k, album, artists) ==
    LET album_name == DGet(album, "album_name")
        album_name_norm == IF Truthy(album_name) THEN _normalize_name(album_name)
                           ELSE None
        owner_id_candidate == IF artists # <<>> THEN DGet(artists[1], "artist_id")
                              ELSE None
        b1 == IF ~Truthy(DGet(album, "album_artist_owner_id"))
                 /\ Truthy(owner_id_candidate)
              THEN [album EXCEPT !["album_artist_owner_id"] = owner_id_candidate]
              ELSE album
        owner_part == DGet(b1, "album_artist_owner_id")
        key == <<album_name_norm, owner_part>>
        lookup == album_name_norm # None /\ ~Truthy(DGet(b1, "album_id"))
        found == GetOr(k.album_key_to_id, key, None)
        album_id_val == IF Truthy(found) THEN found
                        ELSE SynthAlbumId(album_name_norm, owner_part)
        k1 == IF lookup /\ ~Truthy(found)
              THEN [k EXCEPT !.album_key_to_id = Put(@, key, album_id_val)]
              ELSE k
        b2 == IF lookup THEN [b1 EXCEPT !["album_id"] = album_id_val] ELSE b1
        aid_album == DGet(b2, "album_id")
        info_album == GetOr(k.album_id_to_info, aid_album, NoDict(AlbumKeys))
        b3 == IF Truthy(aid_album) /\ NonEmptyDict(info_album)
              THEN _merge_info(info_album, b2) ELSE b2
    IN  [kb |-> k1, album |-> b3]

\* the album of a record, its artists being already enriched
EnrichAlbum(k, album, artists) ==
    LET album_name == DGet(album, "album_name")
        album_name_norm == IF Truthy(album_name) THEN _normalize_name(album_name)
                           ELSE None
        owner_id_candidate == IF artists # <<>> THEN DGet(artists[1], "artist_id")
                              ELSE None
        b1 == IF ~Truthy(DGet(album, "album_artist_owner_id"))
                 /\ Truthy(owner_id_candidate)
              THEN [album EXCEPT !["album_artist_owner_id"] = owner_id_candidate]
              ELSE album
        owner_part == DGet(b1, "album_artist_owner_id")
        key == <<album_name_norm, owner_part>>
        lookup == album_name_norm # None /\ ~Truthy(DGet(b1, "album_id"))
        found == GetOr(k.album_key_to_id, key, None)
        album_id_val == IF Truthy(found) THEN found
                        ELSE SynthAlbumId(album_name_norm, owner_part)
        k1 == IF lookup /\ ~Truthy(found)
              THEN [k EXCEPT !.album_key_to_id = Put(@, key, album_id_val)]
              ELSE k
        b2 == IF lookup THEN [b1 EXCEPT !["album_id"] = album_id_val] ELSE b1
        aid_album == DGet(b2, "album_id")
        info_album == GetOr(k.album_id_to_info, aid_album, NoDict(AlbumKeys))
        b3 == IF Truthy(aid_album) /\ NonEmptyDict(info_album)
              THEN _merge_info(b2, info_album) ELSE b2
    IN  [kb |-> k1, album |-> b3]

\* lines 214-216 keep a nan: iterating it (line 219) raises TypeError,
\* album.get (line 238) AttributeError
EnrichRaises(rec) == IsNaN(rec, "artists") \/ IsNaN(rec, "album")

\* one iteration of `for rec in records` of _apply_ids_and_enrich; the track
\* goes into the enriched record as it is
EnrichRecord(k, rec) ==
    LET ra == FoldLeft(EnrichArtist, [kb |-> k, artists |-> <<>>], rec.artists)
        rb == EnrichAlbum(ra.kb, rec.album, ra.artists)
    IN  [kb |-> rb.kb,
         rec |-> [rec EXCEPT !.album = rb.album, !.artists = ra.artists]]

\* what the iteration leaves in the record of the input list: the artists and
\* a non-empty album are changed in place, an empty album was replaced by a
\* fresh dict that the input record does not hold
InPlace(rec, enriched) ==
    [rec EXCEPT
        !.album = IF NonEmptyDict(rec.album) THEN enriched.album ELSE rec.album,
        !.artists = enriched.artists]

----------------------------------------------------------------------------
(* Fase 4: merge final por track_id con prioridad de datasets *)

key_for(a) ==
    LET aid == DGet(a, "artist_id")
        norm == _normalize_name(DGet(a, "artist_name"))
    IN  IF Truthy(aid) THEN <<"id", PyStr(aid)>>
        ELSE <<"name", IF norm # None THEN norm ELSE EmptyStr>>

BaseArtist(result_map, a) == Put(result_map, key_for(a), a)

NewArtist(result_map, a) ==
    IF Has(result_map, key_for(a))
    THEN Put(result_map, key_for(a), _merge_info(Get(result_map, key_for(a)), a))
    ELSE Put(result_map, key_for(a), a)

\* _merge_artist_lists as a plain concatenation
MergeArtistListsConcat(base_list, new_list) == base_list \o new_list

_merge_artist_lists(base_list, new_list) ==
    ValuesOf(FoldLeft(NewArtist, FoldLeft(BaseArtist, <<>>, base_list), new_list))

_merge_nested(base, new) ==
    [track |-> _merge_info(base.track, new.track),
     album |-> _merge_info(base.album, new.album),
     artists |-> _merge_artist_lists(base.artists, new.artists)]

\* lines 431-435 without the copies: `integrated[tid] = rec`
InsertedSharedNoClone == {"track", "album"}

\* the parts of a new entry that are the very dicts of the record it is made
\* from: dict(track) and dict(album) are new dicts (lines 432-433)
InsertedShared == {}

\* _merge_nested changes the track and the album of the entry in place; an
\* empty one is first replaced by a new dict (lines 326-327).  What is still
\* shared after the merge into entry
KeptShared(sh, tid, entry) ==
    {s \in sh : s[1] = tid => NonEmptyDict(entry[s[3]])}

\* an enriched stream after a merge gave the entry of tid the value merged:
\* a dict that the entry shares with a record of the stream has changed with
\* it.  offset is the number of records folded before the stream
Through(stream, offset, sh, tid, merged) ==
    [i \in 1..Len(stream) |->
        [stream[i] EXCEPT
            !.track = IF <<tid, offset + i, "track">> \in sh THEN merged.track ELSE @,
            !.album = IF <<tid, offset + i, "album">> \in sh THEN merged.album ELSE @]]

\* track.get (line 425) raises AttributeError on a nan; so do dict(nan) and
\* the list over a nan (lines 433-434) and _merge_nested (lines 335-336)
IntegrateRaises(rec) ==
    \/ IsNaN(rec, "track")
    \/ /\ Truthy(DGet(rec.track, "track_id"))
       /\ (IsNaN(rec, "album") \/ IsNaN(rec, "artists"))

\* IntegrateRecord without `if not tid: continue`
IntegrateRecordNoSkip(integ, rec) ==
    LET tid == PyStr(DGet(rec.track, "track_id"))
    IN  IF ~Has(integ, tid)
        THEN Put(integ, tid, [track |-> rec.track, album |-> rec.album,
                              artists |-> rec.artists])
        ELSE Put(integ, tid, _merge_nested(Get(integ, tid), rec))

\* one iteration of `for rec in records` of _integrate
IntegrateRecord(integ, rec) ==
    LET tid0 == DGet(rec.track, "track_id")
        tid == PyStr(tid0)
    IN  IF ~Truthy(tid0) THEN integ
        ELSE IF ~Has(integ, tid)
             THEN Put(integ, tid, [track |-> rec.track, album |-> rec.album,
                                   artists |-> rec.artists])
             ELSE Put(integ, tid, _merge_nested(Get(integ, tid), rec))

\* record = {"track_id": tid}; record.update(obj)
OutputRecord(item) ==
    [track_id |-> item[1], track |-> item[2].track, album |-> item[2].album,
     artists |-> item[2].artists]

----------------------------------------------------------------------------
(* transform_spotify, transform_spotify_youtube, transform_track_data_final:
   what they do to the track_id.  A DataFrame is its set of columns and its
   rows; a row holds its index label and its cells, Absent where the frame
   has no such column *)

NaN == <<"#float", "nan">>

\* Series.astype(str) on one cell: str() of the cell, null or not
AstypeStr(v) == IF v = NaN THEN S(<<"nan">>) ELSE PyStr(v)

\* Series.notna() on one cell
NotNa(v) == v \notin {None, NaN}

\* Series.str.split(":").str[-1] on one cell: what follows the last ":"
RECURSIVE LastSegment(_)
LastSegment(atoms) ==
    IF \E n \in 1..Len(atoms) : atoms[n] = ":"
    THEN LastSegment(Tail(atoms))
    ELSE atoms

SetCell(df, col, Value(_)) ==
    [columns |-> df.columns \cup {col},
     rows |-> [n \in 1..Len(df.rows) |-> [df.rows[n] EXCEPT ![col] = Value(@)]]]

\* df["track_id"] = df["track_id"].astype(str)
TrackIdAsStr(df) == SetCell(df, "track_id", LAMBDA v : AstypeStr(v))

\* df[df["track_id"].notna() & (df["track_id"] != "")]
WithTrackId(df) ==
    [df EXCEPT !.rows =
        SelectSeq(@, LAMBDA row : NotNa(row.track_id) /\ row.track_id # EmptyStr)]

\* df.iloc[0:0]
NoRows(df) == [df EXCEPT !.rows = <<>>]

_clean_spotify_tracks(df) ==
    IF "track_id" \notin df.columns THEN NoRows(df)
    ELSE WithTrackId(TrackIdAsStr(df))

\* the track_id is taken from the uri (spotify:track:<id>) and made a string
_postprocess_spotify_youtube(df) ==
    LET d1 == IF "uri" \notin df.columns THEN df
              ELSE [columns |-> df.columns \cup {"track_id"},
                    rows |-> [n \in 1..Len(df.rows) |->
                        [df.rows[n] EXCEPT
                            !.uri = AstypeStr(@),
                            !.track_id = S(LastSegment(Tail(AstypeStr(df.rows[n].uri))))]]]
    IN  IF "track_id" \in d1.columns THEN TrackIdAsStr(d1) ELSE d1

_clean_spotify_youtube(df) ==
    IF "track_id" \notin df.columns THEN NoRows(df)
    ELSE WithTrackId(TrackIdAsStr(df))

_postprocess_track_data_final(df) ==
    IF "track_id" \in df.columns THEN TrackIdAsStr(df) ELSE df

_clean_track_data_final(df) ==
    IF "track_id" \in df.columns THEN WithTrackId(TrackIdAsStr(df))
    ELSE NoRows(df)

\* df.apply(_row_to_nested_object, axis=1), written to the processed file and
\* read back: the columns the frame does not have give None; Spotify Tracks
\* rows get an empty artists list, the rows of the other two one artist
Nested(df, artists) ==
    [n \in 1..Len(df.rows) |->
        [track |-> [track_id |-> df.rows[n].track_id, track_name |-> None],
         album |-> [k \in AlbumKeys |-> None],
         artists |-> artists]]

OneArtist == <<[k \in ArtistKeys |-> None]>>

NoFrame == [columns |-> {}, rows |-> <<>>]
NoFrames == [src \in {"sp", "yt", "global"} |-> [raw |-> NoFrame, clean |-> NoFrame]]

----------------------------------------------------------------------------
(* transform_integrated: the run as a state machine *)

MaxRecs == 3
MaxMergeCalls == 2
MaxRows == 3
MaxCatalog == 2

all_records == sp_records \o global_records \o yt_records

SetKB(k) ==
    /\ artist_name_to_id' = k.artist_name_to_id
    /\ artist_name_to_info' = k.artist_name_to_info
    /\ artist_id_to_info' = k.artist_id_to_info
    /\ artist_names_without_id' = k.artist_names_without_id
    /\ album_key_to_id' = k.album_key_to_id
    /\ album_key_to_info' = k.album_key_to_info
    /\ album_id_to_info' = k.album_id_to_info
    /\ album_keys_without_id' = k.album_keys_without_id

\* lines 85-95: the collections are created empty
SetKBInit ==
    /\ artist_name_to_id = <<>>
    /\ artist_name_to_info = <<>>
    /\ artist_id_to_info = <<>>
    /\ artist_names_without_id = {}
    /\ album_key_to_id = <<>>
    /\ album_key_to_info = <<>>
    /\ album_id_to_info = <<>>
    /\ album_keys_without_id = {}

\* After with line 440 moved before line 407: Spotify Tracks is folded before
\* Spotify-YouTube is enriched
AfterFoldBeforeLastEnrich(p) ==
    CASE p = "build" -> "enrich_sp"
      [] p = "enrich_sp" -> "enrich_global"
      [] p = "enrich_global" -> "integrate_sp"
      [] p = "integrate_sp" -> "enrich_yt"
      [] p = "enrich_yt" -> "integrate_global"
      [] p = "integrate_global" -> "integrate_yt"
      [] p = "integrate_yt" -> "write"
      [] OTHER -> "done"

\* After with lines 441 and 442 exchanged: Spotify-YouTube is folded before
\* track_data_final
AfterYtBeforeGlobal(p) ==
    CASE p = "build" -> "enrich_sp"
      [] p = "enrich_sp" -> "enrich_global"
      [] p = "enrich_global" -> "enrich_yt"
      [] p = "enrich_yt" -> "integrate_sp"
      [] p = "integrate_sp" -> "integrate_yt"
      [] p = "integrate_yt" -> "integrate_global"
      [] p = "integrate_global" -> "write"
      [] OTHER -> "done"

\* the loops that follow a position, in program order
After(p) ==
    CASE p = "build" -> "enrich_sp"
      [] p = "enrich_sp" -> "enrich_global"
      [] p = "enrich_global" -> "enrich_yt"
      [] p = "enrich_yt" -> "integrate_sp"
      [] p = "integrate_sp" -> "integrate_global"
      [] p = "integrate_global" -> "integrate_yt"
      [] p = "integrate_yt" -> "write"
      [] OTHER -> "done"

\* number of iterations of the loop at a position
Work(p) ==
    CASE p \in {"enrich_sp", "integrate_sp"} -> Len(sp_records)
      [] p \in {"enrich_global", "integrate_global"} -> Len(global_records)
      [] p \in {"enrich_yt", "integrate_yt"} -> Len(yt_records)
      [] OTHER -> 1

\* a loop over an empty list is passed without an iteration
RECURSIVE Reach(_)
Reach(p) == IF Work(p) > 0 THEN p ELSE Reach(After(p))

\* control after one more iteration of the loop at pc
Step ==
    /\ idx' = IF idx + 1 < Work(pc) THEN idx + 1 ELSE 0
    /\ pc' = IF idx + 1 < Work(pc) THEN pc ELSE Reach(After(pc))

\* _build_knowledge, `for rec in all_records`: one record
BuildScan ==
    /\ pc = "build"
    /\ idx < Len(all_records)
    /\ IF ScanRaises(all_records[idx + 1])
       THEN pc' = "raised" /\ UNCHANGED <<idx, kbvars>>
       ELSE /\ LET k == ScanRecord(KB, all_records[idx + 1]) IN SetKB(k)
            /\ idx' = idx + 1
            /\ UNCHANGED pc
    /\ UNCHANGED <<recvars, loaded, pending, shares, frames, tables, enrvars, integrated,
                   output_records, mivars>>

\* _build_knowledge, Fase 2, and its return
BuildResolve ==
    /\ pc = "build"
    /\ idx = Len(all_records)
    /\ \E names \in Orders(artist_names_without_id) :
       \E keys \in Orders(album_keys_without_id) :
          LET k == Phase2(KB, names, keys) IN SetKB(k)
    /\ idx' = 0
    /\ pc' = Reach(After(pc))
    /\ UNCHANGED <<recvars, loaded, pending, shares, frames, tables, enrvars, integrated,
                   output_records, mivars>>

\* Fase 2 one iteration at a time.  What Fase 2 leaves unchanged
ResolveFrame == UNCHANGED <<recvars, loaded, enrvars, integrated, shares, frames, tables,
                            output_records, mivars>>

\* the scan is over: `for norm in artist_names_without_id` starts
ResolveBegin ==
    /\ pc = "build"
    /\ idx = Len(all_records)
    /\ pc' = "mint_artists"
    /\ pending' = artist_names_without_id
    /\ UNCHANGED <<idx, kbvars>>
    /\ ResolveFrame

\* `for norm in artist_names_without_id`: one name, in whatever order the set
\* yields it, or the end of the loop
MintArtists ==
    /\ pc = "mint_artists"
    /\ IF pending # {}
       THEN \E norm \in pending :
               /\ LET k == MintArtist(KB, norm) IN SetKB(k)
               /\ pending' = pending \ {norm}
               /\ UNCHANGED <<pc, idx>>
       ELSE /\ pc' = "merge_artists"
            /\ idx' = 0
            /\ UNCHANGED <<pending, kbvars>>
    /\ ResolveFrame

\* `for norm, aid in artist_name_to_id.items()`: one item, or the end of the
\* loop, where `for key in album_keys_without_id` starts
MergeArtists ==
    /\ pc = "merge_artists"
    /\ IF idx < Len(artist_name_to_id)
       THEN /\ LET k == ConsolidateArtist(KB, artist_name_to_id[idx + 1])
               IN  SetKB(k)
            /\ idx' = idx + 1
            /\ UNCHANGED <<pc, pending>>
       ELSE /\ pc' = "mint_albums"
            /\ idx' = 0
            /\ pending' = album_keys_without_id
            /\ UNCHANGED kbvars
    /\ ResolveFrame

\* `for key in album_keys_without_id`: one key, or the end of the loop
MintAlbums ==
    /\ pc = "mint_albums"
    /\ IF pending # {}
       THEN \E key \in pending :
               /\ LET k == MintAlbum(KB, key) IN SetKB(k)
               /\ pending' = pending \ {key}
               /\ UNCHANGED <<pc, idx>>
       ELSE /\ pc' = "merge_albums"
            /\ idx' = 0
            /\ UNCHANGED <<pending, kbvars>>
    /\ ResolveFrame

\* `for key, aid in album_key_to_id.items()`: one item, or the end of the loop
\* and the return of _build_knowledge
MergeAlbums ==
    /\ pc = "merge_albums"
    /\ IF idx < Len(album_key_to_id)
       THEN /\ LET k == ConsolidateAlbum(KB, album_key_to_id[idx + 1])
               IN  SetKB(k)
            /\ idx' = idx + 1
            /\ UNCHANGED pc
       ELSE /\ pc' = Reach(After("build"))
            /\ idx' = 0
            /\ UNCHANGED kbvars
    /\ UNCHANGED pending
    /\ ResolveFrame

\* _apply_ids_and_enrich: one record of the list `records`
Enrich(records, enriched) ==
    IF EnrichRaises(records[idx + 1])
    THEN pc' = "raised" /\ UNCHANGED <<idx, kbvars, records, enriched>>
    ELSE LET r == EnrichRecord(KB, records[idx + 1]) IN
         /\ SetKB(r.kb)
         /\ records' = [records EXCEPT ![idx + 1] = InPlace(@, r.rec)]
         /\ enriched' = Append(enriched, r.rec)
         /\ Step

EnrichSp ==
    /\ pc = "enrich_sp"
    /\ Enrich(sp_records, sp_enriched)
    /\ UNCHANGED <<global_records, yt_records, global_enriched, yt_enriched,
                   loaded, pending, shares, frames, tables, integrated, output_records, mivars>>

EnrichGlobal ==
    /\ pc = "enrich_global"
    /\ Enrich(global_records, global_enriched)
    /\ UNCHANGED <<sp_records, yt_records, sp_enriched, yt_enriched,
                   loaded, pending, shares, frames, tables, integrated, output_records, mivars>>

EnrichYt ==
    /\ pc = "enrich_yt"
    /\ Enrich(yt_records, yt_enriched)
    /\ UNCHANGED <<sp_records, global_records, sp_enriched, global_enriched,
                   loaded, pending, shares, frames, tables, integrated, output_records, mivars>>

\* _integrate: one record of an enriched list, offset being the number of
\* records of the lists folded before it
Integrate(enriched, offset) ==
    /\ IF IntegrateRaises(enriched[idx + 1])
       THEN pc' = "raised" /\ UNCHANGED <<idx, integrated, shares, enrvars>>
       ELSE LET rec == enriched[idx + 1]
                tid == PyStr(DGet(rec.track, "track_id"))
                n == offset + idx + 1
            IN  /\ integrated' = IntegrateRecord(integrated, rec)
                /\ IF ~Truthy(DGet(rec.track, "track_id"))
                   THEN UNCHANGED <<shares, enrvars>>
                   ELSE IF ~Has(integrated, tid)
                   THEN /\ shares' = shares \cup {<<tid, n, p>> : p \in InsertedShared}
                        /\ UNCHANGED enrvars
                   ELSE LET kept == KeptShared(shares, tid, Get(integrated, tid))
                            merged == _merge_nested(Get(integrated, tid), rec)
                        IN  /\ shares' = kept
                            /\ sp_enriched' = Through(sp_enriched, 0, kept, tid, merged)
                            /\ global_enriched' =
                                  Through(global_enriched, Len(sp_enriched), kept, tid,
                                          merged)
                            /\ yt_enriched' =
                                  Through(yt_enriched,
                                          Len(sp_enriched) + Len(global_enriched),
                                          kept, tid, merged)
                /\ Step
    /\ UNCHANGED <<recvars, loaded, pending, frames, tables, kbvars, output_records,
                   mivars>>

IntegrateSp == pc = "integrate_sp" /\ Integrate(sp_enriched, 0)

IntegrateGlobal ==
    pc = "integrate_global" /\ Integrate(global_enriched, Len(sp_enriched))

IntegrateYt ==
    /\ pc = "integrate_yt"
    /\ Integrate(yt_enriched, Len(sp_enriched) + Len(global_enriched))

\* output_records and its hand-over to write_json_with_logging
WriteOutput ==
    /\ pc = "write"
    /\ output_records' = [n \in 1..Len(integrated) |-> OutputRecord(integrated[n])]
    /\ pc' = "done"
    /\ UNCHANGED <<idx, recvars, loaded, pending, shares, frames, tables, kbvars, enrvars, integrated,
                   mivars>>

NextRun ==
    \/ BuildScan
    \/ BuildResolve
    \/ EnrichSp
    \/ EnrichGlobal
    \/ EnrichYt
    \/ IntegrateSp
    \/ IntegrateGlobal
    \/ IntegrateYt
    \/ WriteOutput

\* the run with Fase 2 taken one iteration at a time
NextStepwise ==
    \/ BuildScan
    \/ ResolveBegin
    \/ MintArtists
    \/ MergeArtists
    \/ MintAlbums
    \/ MergeAlbums
    \/ EnrichSp
    \/ EnrichGlobal
    \/ EnrichYt
    \/ IntegrateSp
    \/ IntegrateGlobal
    \/ IntegrateYt
    \/ WriteOutput

\* _build_knowledge alone
NextBuild ==
    \/ BuildScan
    \/ BuildResolve

\* what a transform of one source leaves unchanged
TransformFrame ==
    UNCHANGED <<idx, pending, kbvars, enrvars, integrated, shares, output_records,
                tables, mivars>>

\* transform_spotify: the raw file is read, cleaned, nested and written; the
\* processed file is what transform_integrated loads as sp_records
TransformSpotify ==
    /\ pc = "transform_spotify"
    /\ LET df == _clean_spotify_tracks(frames["sp"].raw)
       IN  /\ frames' = [frames EXCEPT !["sp"].clean = df]
           /\ sp_records' = Nested(df, <<>>)
           /\ loaded' = [loaded EXCEPT !.sp = Nested(df, <<>>)]
    /\ pc' = "transform_spotify_youtube"
    /\ UNCHANGED <<global_records, yt_records>>
    /\ TransformFrame

TransformSpotifyYoutube ==
    /\ pc = "transform_spotify_youtube"
    /\ LET df == _clean_spotify_youtube(_postprocess_spotify_youtube(frames["yt"].raw))
       IN  /\ frames' = [frames EXCEPT !["yt"].clean = df]
           /\ yt_records' = Nested(df, OneArtist)
           /\ loaded' = [loaded EXCEPT !.yt = Nested(df, OneArtist)]
    /\ pc' = "transform_track_data_final"
    /\ UNCHANGED <<sp_records, global_records>>
    /\ TransformFrame

\* transform_track_data_final; transform_integrated comes next
TransformTrackDataFinal ==
    /\ pc = "transform_track_data_final"
    /\ LET df == _clean_track_data_final(
                    _postprocess_track_data_final(frames["global"].raw))
       IN  /\ frames' = [frames EXCEPT !["global"].clean = df]
           /\ global_records' = Nested(df, OneArtist)
           /\ loaded' = [loaded EXCEPT !.global = Nested(df, OneArtist)]
    /\ pc' = "build"
    /\ UNCHANGED <<sp_records, yt_records>>
    /\ TransformFrame

\* main_transform up to the start of transform_integrated
NextTransform ==
    \/ TransformSpotify
    \/ TransformSpotifyYoutube
    \/ TransformTrackDataFinal

(* load_schema: the tables built from songs_integrated.json and their
   insertion.  A DataFrame is the sequence of its rows; a null cell (None,
   nan, pd.NA) is None *)

\* Series.astype("string").str.strip(): a null stays null
StrStrip(v) ==
    IF v \in {Absent, None, NaN} THEN None
    ELSE S(RStrip(LStrip(Tail(PyStr(v)))))

BadStrings ==
    {EmptyStr, S(<<"None">>), S(<<"none">>), S(<<"NaN">>), S(<<"nan">>), S(<<"<NA>">>)}

_clean_nullable_str(v) ==
    LET s == StrStrip(v) IN IF s \in BadStrings THEN None ELSE s

\* DataFrame.drop_duplicates(subset=[key]): the first row of each value stays
RECURSIVE DropDuplicates(_, _)
DropDuplicates(rows, key) ==
    IF rows = <<>> THEN <<>>
    ELSE LET rest == DropDuplicates(SubSeq(rows, 1, Len(rows) - 1), key)
             last == rows[Len(rows)]
         IN  IF \E n \in 1..Len(rest) : rest[n][key] = last[key]
             THEN rest
             ELSE Append(rest, last)

\* track_rows: dict(track) with track_id and album_id set
track_rows(records) ==
    [n \in 1..Len(records) |->
       [track_id |-> records[n].track_id,
        album_id |-> DGet(records[n].album, "album_id"),
        track_name |-> records[n].track["track_name"]]]

\* album_rows: dict(album)
album_rows(records) == [n \in 1..Len(records) |-> records[n].album]

\* artist_rows: dict(art) of every artist of every record
RECURSIVE artist_rows(_)
artist_rows(records) ==
    IF records = <<>> THEN <<>>
    ELSE records[1].artists \o artist_rows(Tail(records))

\* track_artist_pairs
RECURSIVE track_artist_pairs(_)
track_artist_pairs(records) ==
    IF records = <<>> THEN {}
    ELSE {[track_id |-> PyStr(records[1].track_id),
           artist_id |-> PyStr(DGet(records[1].artists[n], "artist_id"))] :
            n \in {m \in 1..Len(records[1].artists) :
                     /\ Truthy(records[1].track_id)
                     /\ Truthy(DGet(records[1].artists[m], "artist_id"))}}
         \cup track_artist_pairs(Tail(records))

\* _first_not_na over the rows of one artist_id
RECURSIVE FirstNotNa(_, _, _)
FirstNotNa(rows, id, col) ==
    IF rows = <<>> THEN None
    ELSE IF /\ _clean_nullable_str(rows[1].artist_id) = id
            /\ _clean_nullable_str(rows[1][col]) # None
         THEN _clean_nullable_str(rows[1][col])
         ELSE FirstNotNa(Tail(rows), id, col)

\* build_artists: one row per artist_id, a missing name replaced by the id
build_artists(df_artists) ==
    LET ids == {_clean_nullable_str(df_artists[n].artist_id) :
                  n \in 1..Len(df_artists)} \ {None}
    IN  {[artist_id |-> id,
          artist_name |-> IF FirstNotNa(df_artists, id, "artist_name") = None
                          THEN id
                          ELSE FirstNotNa(df_artists, id, "artist_name")] :
           id \in ids}

\* _ensure_list
_ensure_list(v) ==
    IF v \in {None, NaN, EmptyList} \/ StrStrip(v) = EmptyStr THEN {}
    ELSE {StrStrip(v)}

\* build_artist_genres
build_artist_genres(df_artists) ==
    IF \/ \A n \in 1..Len(df_artists) : df_artists[n].artist_id = Absent
       \/ \A n \in 1..Len(df_artists) : df_artists[n].artist_genres = Absent
    THEN {}
    ELSE UNION {{[artist_id |-> StrStrip(df_artists[n].artist_id), genre |-> g] :
                   g \in _ensure_list(df_artists[n].artist_genres)} :
                  n \in {m \in 1..Len(df_artists) :
                           /\ df_artists[m].artist_id \notin {Absent, None}
                           /\ df_artists[m].artist_genres \notin {Absent, None}}}

\* build_albums
build_albums(df_albums) ==
    LET df_alb == [n \in 1..Len(df_albums) |->
                     [album_id |-> _clean_nullable_str(df_albums[n].album_id),
                      artist_id |->
                         _clean_nullable_str(df_albums[n].album_artist_owner_id),
                      album_name |-> _clean_nullable_str(df_albums[n].album_name)]]
        kept == SelectSeq(df_alb, LAMBDA r : r.album_id # None /\ r.artist_id # None)
        named == [n \in 1..Len(kept) |->
                    IF kept[n].album_name = None
                    THEN [kept[n] EXCEPT !.album_name = S(<<"Unknown Album">>)]
                    ELSE kept[n]]
    IN  DropDuplicates(named, "album_id")

\* build_tracks
build_tracks(df_tracks) ==
    LET ids == [n \in 1..Len(df_tracks) |->
                  [df_tracks[n] EXCEPT !.track_id = StrStrip(df_tracks[n].track_id)]]
        df_tr == SelectSeq(ids, LAMBDA r : r.track_id \notin
                                              {None, EmptyStr, S(<<"<NA>">>)})
        cleaned == [n \in 1..Len(df_tr) |->
                      [track_id |-> df_tr[n].track_id,
                       album_id |-> _clean_nullable_str(df_tr[n].album_id),
                       track_name |->
                          IF _clean_nullable_str(df_tr[n].track_name) = None
                          THEN df_tr[n].track_id
                          ELSE _clean_nullable_str(df_tr[n].track_name)]]
    IN  DropDuplicates(cleaned, "track_id")

\* build_track_artists: the pairs whose track and artist are in the tables
build_track_artists(df_pairs, df_tracks, df_artists) ==
    LET df_ta == {[track_id |-> _clean_nullable_str(p.track_id),
                   artist_id |-> _clean_nullable_str(p.artist_id)] : p \in df_pairs}
    IN  {p \in df_ta :
           /\ p.track_id # None
           /\ p.artist_id # None
           /\ \E n \in 1..Len(df_tracks) : df_tracks[n].track_id = p.track_id
           /\ \E a \in df_artists : a.artist_id = p.artist_id}

\* the alignment of the album_id of the tracks with the albums
AlignAlbumIds(df_tracks, df_albums) ==
    IF df_albums # <<>>
    THEN LET valid_album_ids_set ==
                 {StrStrip(df_albums[n].album_id) : n \in 1..Len(df_albums)}
         IN  [n \in 1..Len(df_tracks) |->
                IF \/ StrStrip(df_tracks[n].album_id) \notin valid_album_ids_set
                   \/ StrStrip(df_tracks[n].album_id) \in BadStrings
                THEN [df_tracks[n] EXCEPT !.album_id = None]
                ELSE [df_tracks[n] EXCEPT !.album_id = StrStrip(@)]]
    ELSE df_tracks

NoRowsOfTables ==
    [artists |-> {}, artist_genres |-> {}, albums |-> <<>>, tracks |-> <<>>,
     track_artists |-> {}]

\* nothing built, nothing in the database
NoTables == [df |-> NoRowsOfTables, db |-> NoRowsOfTables]

\* REFERENCES: every value of the column is NULL or a key of the table
References(values, keys) == \A v \in values : v = None \/ v \in keys

ColumnOfSeq(rows, col) == {rows[n][col] : n \in 1..Len(rows)}
ColumnOfSet(rows, col) == {r[col] : r \in rows}

\* what load_schema leaves alone
LoadFrame ==
    UNCHANGED <<idx, pending, frames, recvars, loaded, kbvars, enrvars, integrated,
                shares, output_records, mivars>>

\* load_schema up to the alignment: the file is read and flattened, the
\* tables are created and truncated, the five DataFrames are built
LoadBuild ==
    /\ pc = "load_schema"
    /\ LET records == output_records
           df_artists == build_artists(artist_rows(records))
           df_tracks == build_tracks(track_rows(records))
       IN  tables' =
             [df |-> [artists |-> df_artists,
                      artist_genres |-> build_artist_genres(artist_rows(records)),
                      albums |-> build_albums(album_rows(records)),
                      tracks |-> df_tracks,
                      track_artists |->
                         build_track_artists(track_artist_pairs(records), df_tracks,
                                             df_artists)],
              db |-> NoRowsOfTables]
    /\ pc' = "align"
    /\ LoadFrame

LoadAlign ==
    /\ pc = "align"
    /\ tables' = [tables EXCEPT
                    !.df.tracks = AlignAlbumIds(tables.df.tracks, tables.df.albums)]
    /\ pc' = "insert_artists"
    /\ LoadFrame

\* df.to_sql(table): the rows are appended, or the database refuses them all
ToSql(table, accepted, next) ==
    /\ IF accepted
       THEN /\ tables' = [tables EXCEPT !.db[table] = tables.df[table]]
            /\ pc' = next
       ELSE /\ pc' = "raised"
            /\ UNCHANGED tables
    /\ LoadFrame

InsertArtists ==
    /\ pc = "insert_artists"
    /\ ToSql("artists", TRUE, "insert_artist_genres")

InsertArtistGenres ==
    /\ pc = "insert_artist_genres"
    /\ ToSql("artist_genres",
             References(ColumnOfSet(tables.df.artist_genres, "artist_id"),
                        ColumnOfSet(tables.db.artists, "artist_id")),
             "insert_albums")

InsertAlbums ==
    /\ pc = "insert_albums"
    /\ ToSql("albums",
             /\ None \notin ColumnOfSeq(tables.df.albums, "artist_id")
             /\ References(ColumnOfSeq(tables.df.albums, "artist_id"),
                           ColumnOfSet(tables.db.artists, "artist_id")),
             "insert_tracks")

InsertTracks ==
    /\ pc = "insert_tracks"
    /\ ToSql("tracks",
             References(ColumnOfSeq(tables.df.tracks, "album_id"),
                        ColumnOfSeq(tables.db.albums, "album_id")),
             "insert_track_artists")

InsertTrackArtists ==
    /\ pc = "insert_track_artists"
    /\ ToSql("track_artists",
             /\ References(ColumnOfSet(tables.df.track_artists, "track_id"),
                           ColumnOfSeq(tables.db.tracks, "track_id"))
             /\ References(ColumnOfSet(tables.df.track_artists, "artist_id"),
                           ColumnOfSet(tables.db.artists, "artist_id")),
             "loaded")

\* load_schema
NextLoad ==
    \/ LoadBuild
    \/ LoadAlign
    \/ InsertArtists
    \/ InsertArtistGenres
    \/ InsertAlbums
    \/ InsertTracks
    \/ InsertTrackArtists

\* a direct call _merge_info(base, new), base being changed in place
MergeInfoCall ==
    /\ pc = "merge_info"
    /\ mi_calls < MaxMergeCalls
    /\ mi_prev' = mi_base
    /\ mi_base' = _merge_info(mi_base, mi_new)
    /\ mi_calls' = mi_calls + 1
    /\ UNCHANGED <<pc, idx, recvars, loaded, pending, shares, frames, tables, kbvars, enrvars, integrated,
                   output_records, mi_base0, mi_new>>

NextMergeInfo == MergeInfoCall

----------------------------------------------------------------------------
(* Inputs *)

T(tid, name) == [track_id |-> tid, track_name |-> name]
Al(id, name, type, owner) ==
    [album_id |-> id, album_name |-> name, album_type |-> type,
     album_artist_owner_id |-> owner]
Ar(id, name, genres) == [artist_id |-> id, artist_name |-> name, artist_genres |-> genres]
Rec(t, al, ars) == [track |-> t, album |-> al, artists |-> ars]

T1 == S(<<"T1">>)
T2 == S(<<"T2">>)
NoAlbum == Al(None, None, None, None)

\* records that differ in the track and in a plain album field
TrackPool ==
    { Rec(T(T1, S(<<"Song">>)), Al(None, None, S(<<"single">>), None), <<>>),
      Rec(T(T1, S(<<"Other">>)), Al(None, None, S(<<"album">>), None), <<>>),
      Rec(T(T1, EmptyStr), Al(None, None, None, None), <<>>),
      Rec(T(Absent, S(<<"Song">>)), NoAlbum, <<>>),
      Rec(T(EmptyStr, S(<<"Other">>)), NoAlbum, <<>>),
      Rec(T(IntV(<<"7">>), None), Al(None, None, EmptyList, None), <<>>) }

Jane == Ar(None, S(<<"Jane">>), None)

\* records that differ in the album and in its owner
AlbumPool ==
    { Rec(T(T1, None), Al(S(<<"L">>), S(<<"X">>), S(<<"single">>), None), <<Jane>>),
      Rec(T(T2, None), Al(None, S(<<" ", "x">>), None, None), <<Jane>>),
      Rec(T(T1, None), Al(None, S(<<"X">>), S(<<"album">>), None), <<>>),
      Rec(T(T1, None), Al(None, S(<<"X">>), S(<<"single">>), S(<<"none">>)), <<>>),
      Rec(T(T1, None), Al(None, S(<<"X">>), None, None), <<>>),
      Rec(T(T2, None), Al(None, S(<<" ">>), None, S(<<"A1">>)),
          <<Ar(None, None, None)>>) }

\* records that differ in the artists
ArtistPool ==
    { Rec(T(T1, None), NoAlbum, <<Ar(None, S(<<"Jane">>), S(<<"g1">>))>>),
      Rec(T(T1, None), NoAlbum, <<Ar(S(<<"A1">>), S(<<" ", "jane">>), None)>>),
      Rec(T(T1, None), NoAlbum, <<Ar(S(<<"A2">>), S(<<"Jane">>), S(<<"g2">>))>>),
      Rec(T(T1, None), NoAlbum,
          <<Ar(None, S(<<"Jane">>), None), Ar(None, S(<<"jane", " ">>), S(<<"g2">>))>>),
      Rec(T(T2, None), NoAlbum, <<Ar(None, None, S(<<"g1">>))>>),
      Rec(T(T1, None), NoAlbum, <<Ar(None, S(<<" ">>), None), Ar(EmptyStr, EmptyStr, None)>>) }

\* records whose albums come with an explicit owner
OwnedPool ==
    { Rec(T(T1, None), Al(None, S(<<"X">>), S(<<"single">>), S(<<"A1">>)), <<>>),
      Rec(T(T1, None), Al(None, S(<<" ", "x">>), None, S(<<"A1">>)), <<Jane>>),
      Rec(T(T2, None), Al(None, S(<<"X">>), None, S(<<"A2">>)), <<>>),
      Rec(T(T1, None), Al(S(<<"L">>), S(<<"Jane">>), S(<<"album">>), None), <<>>),
      Rec(T(T2, None), Al(S(<<"M">>), S(<<"X">>), None, S(<<"A2">>)), <<>>) }

\* records in which a name comes with two artist ids and without, and an
\* album with two album ids and without
IdentityPool ==
    { Rec(T(T1, None), Al(S(<<"L">>), S(<<"X">>), S(<<"single">>), None),
          <<Ar(S(<<"A1">>), S(<<"Jane">>), S(<<"g1">>))>>),
      Rec(T(T1, None), Al(S(<<"M">>), S(<<" ", "x">>), None, None),
          <<Ar(S(<<"A2">>), S(<<" ", "jane">>), None)>>),
      Rec(T(T2, None), Al(None, S(<<"X">>), None, None),
          <<Ar(None, S(<<"Jane">>), S(<<"g2">>))>>),
      Rec(T(T2, None), Al(None, S(<<"X">>), S(<<"album">>), S(<<"none">>)),
          <<Ar(None, S(<<"X">>), EmptyStr)>>),
      Rec(T(T2, None), Al(None, S(<<"X">>), S(<<"single">>), None),
          <<Ar(S(<<"synth:artist:", "x">>), None, S(<<"g2">>))>>) }

\* records with fields that are absent, null, empty or falsy next to records
\* that bring values for them
EnrichPool ==
    { Rec(T(T1, S(<<"Song">>)), Al(S(<<"L">>), S(<<"X">>), S(<<"single">>), None),
          <<Ar(S(<<"A1">>), S(<<"Jane">>), S(<<"g1">>))>>),
      Rec(T(T1, None), Al(None, S(<<"X">>), EmptyStr, Zero),
          <<Ar(Zero, S(<<"Jane">>), EmptyStr)>>),
      Rec(T(T2, Absent), Al(FalseV, S(<<" ", "x">>), S(<<"album">>), Absent),
          <<Ar(Absent, S(<<"jane", " ">>), S(<<"g2">>))>>),
      Rec(T(T2, None), Al(S(<<"L">>), None, None, S(<<"A2">>)),
          <<Ar(S(<<"A1">>), None, Zero)>>),
      Rec(T(T2, EmptyStr), Al(None, S(<<"X">>), None, EmptyStr), <<>>) }

\* a record as lines 359-368 load it: nan names the sub-objects that came as
\* the float nan
Raw(rec, nan) ==
    [track |-> rec.track, album |-> rec.album, artists |-> rec.artists, nan |-> nan]

\* records that lack sub-objects (an empty dict or list stands for a missing
\* key and for null, which lines 98-100 turn into it), references without
\* name and id, an album key that the scan does not form
ShapePool ==
    { Raw(Rec(T(T1, S(<<"Song">>)), NoDict(AlbumKeys), <<>>), {}),
      Raw(Rec(T(T1, None), Al(None, S(<<"X">>), None, None),
              <<Ar(S(<<"A1">>), S(<<"Jane">>), None)>>), {}),
      Raw(Rec(T(T2, None), NoDict(AlbumKeys),
              <<Ar(None, None, None), NoDict(ArtistKeys)>>), {}),
      Raw(Rec(NoDict(TrackKeys), Al(None, S(<<"X">>), None, None), <<Jane>>), {}),
      Raw(Rec(T(T2, None), NoDict(AlbumKeys), <<>>), {"album"}),
      Raw(Rec(T(T2, None), NoDict(AlbumKeys), <<>>), {"artists"}),
      Raw(Rec(NoDict(TrackKeys), NoDict(AlbumKeys), <<>>), {"track"}) }

\* rows of a raw file: the cell of track_id and the cell of uri
Row(track_id, uri) == [track_id |-> track_id, uri |-> uri]

RowPool ==
    { Row(T1, S(<<"spotify", ":", "track", ":", "T1">>)),
      Row(None, None),
      Row(NaN, NaN),
      Row(EmptyStr, EmptyStr),
      Row(IntV(<<"7">>), S(<<"T2">>)) }

\* the raw frame of a source: the rows with their index labels, the cells of
\* the columns the file does not have being absent
RawFrame(rows, columns) ==
    [columns |-> columns,
     rows |-> [n \in 1..Len(rows) |->
                 [index |-> n,
                  track_id |-> IF "track_id" \in columns THEN rows[n].track_id
                               ELSE Absent,
                  uri |-> IF "uri" \in columns THEN rows[n].uri ELSE Absent]]]

SeqsUpTo(P, n) == UNION {[1..m -> P] : m \in 0..n}

NoMergeInfo ==
    /\ mi_base0 = <<>>
    /\ mi_base = <<>>
    /\ mi_prev = <<>>
    /\ mi_new = <<>>
    /\ mi_calls = 0

\* the state at line 372: the three lists are loaded, nothing else exists yet
InitRun(pool) ==
    /\ \E all \in SeqsUpTo(pool, MaxRecs) :
       \E a \in 0..Len(all) :
       \E b \in a..Len(all) :
          /\ sp_records = SubSeq(all, 1, a)
          /\ global_records = SubSeq(all, a + 1, b)
          /\ yt_records = SubSeq(all, b + 1, Len(all))
    /\ loaded = [sp |-> sp_records, global |-> global_records, yt |-> yt_records]
    /\ pc = "build"
    /\ idx = 0
    /\ pending = {}
    /\ shares = {}
    /\ frames = NoFrames
    /\ tables = NoTables
    /\ SetKBInit
    /\ sp_enriched = <<>>
    /\ global_enriched = <<>>
    /\ yt_enriched = <<>>
    /\ integrated = <<>>
    /\ output_records = <<>>
    /\ NoMergeInfo

\* albums and artist lists of the records of songs_integrated.json: an album
\* with and without its owner, an album without id, an id with a blank
LoadAlbumPool ==
    { Al(S(<<"L1">>), S(<<"X">>), None, S(<<"A1">>)),
      Al(S(<<"L1">>), S(<<"X">>), None, None),
      Al(S(<<"L2", " ">>), None, None, S(<<"A1">>)),
      Al(S(<<"L3">>), S(<<"X">>), None, S(<<"A2">>)),
      Al(None, None, None, None) }

LoadArtistsPool ==
    { <<>>,
      <<Ar(S(<<"A1">>), S(<<"Jane">>), Absent)>>,
      <<Ar(S(<<"A1">>), None, Absent), Ar(None, S(<<"X">>), Absent)>> }

\* the n-th record of an integrated catalog: the track_ids are its keys, so
\* no two records share one
CatalogRecord(n, al, ars) ==
    [track_id |-> S(<<"t", n>>), track |-> T(S(<<"t", n>>), S(<<"Song">>)),
     album |-> al, artists |-> ars]

\* the state in which load_schema starts: songs_integrated.json as written
InitLoad ==
    /\ \E albums \in SeqsUpTo(LoadAlbumPool, MaxCatalog) :
       \E artists \in [1..Len(albums) -> LoadArtistsPool] :
          output_records =
            [n \in 1..Len(albums) |->
               CatalogRecord(CASE n = 1 -> "1" [] n = 2 -> "2" [] OTHER -> "3",
                             albums[n], artists[n])]
    /\ pc = "load_schema"
    /\ tables = NoTables
    /\ frames = NoFrames
    /\ sp_records = <<>>
    /\ global_records = <<>>
    /\ yt_records = <<>>
    /\ loaded = [sp |-> <<>>, global |-> <<>>, yt |-> <<>>]
    /\ idx = 0
    /\ pending = {}
    /\ shares = {}
    /\ SetKBInit
    /\ sp_enriched = <<>>
    /\ global_enriched = <<>>
    /\ yt_enriched = <<>>
    /\ integrated = <<>>
    /\ NoMergeInfo

\* the state in which main_transform starts: the three raw files
InitClean ==
    /\ \E all \in SeqsUpTo(RowPool, MaxRows) :
       \E a \in 0..Len(all) :
       \E b \in a..Len(all) :
       \E without \in SUBSET {"sp", "yt", "global"} :
          frames =
            [src \in {"sp", "yt", "global"} |->
               [raw |-> RawFrame(
                          CASE src = "sp" -> SubSeq(all, 1, a)
                            [] src = "yt" -> SubSeq(all, a + 1, b)
                            [] OTHER -> SubSeq(all, b + 1, Len(all)),
                          IF src \in without THEN {}
                          ELSE IF src = "yt" THEN {"uri"} ELSE {"track_id"}),
                clean |-> NoFrame]]
    /\ sp_records = <<>>
    /\ global_records = <<>>
    /\ yt_records = <<>>
    /\ loaded = [sp |-> <<>>, global |-> <<>>, yt |-> <<>>]
    /\ pc = "transform_spotify"
    /\ tables = NoTables
    /\ idx = 0
    /\ pending = {}
    /\ shares = {}
    /\ SetKBInit
    /\ sp_enriched = <<>>
    /\ global_enriched = <<>>
    /\ yt_enriched = <<>>
    /\ integrated = <<>>
    /\ output_records = <<>>
    /\ NoMergeInfo

InitTracks == InitRun(TrackPool)
InitAlbums == InitRun(AlbumPool)
InitArtists == InitRun(ArtistPool)
InitOwned == InitRun(OwnedPool)
InitIdentity == InitRun(IdentityPool)
InitEnrich == InitRun(EnrichPool)
InitShapes == InitRun(ShapePool)

MiKeys == {"a", "b"}
MiValues ==
    {Absent, None, EmptyStr, EmptyList, EmptyDict, Zero, FalseV,
     IntV(<<"1">>), IntV(<<"2">>), IntV(<<"3">>)}

InitMergeInfo ==
    /\ mi_base0 \in [MiKeys -> MiValues]
    /\ mi_new \in [MiKeys -> MiValues]
    /\ mi_base = mi_base0
    /\ mi_prev = mi_base0
    /\ mi_calls = 0
    /\ pc = "merge_info"
    /\ idx = 0
    /\ pending = {}
    /\ shares = {}
    /\ frames = NoFrames
    /\ tables = NoTables
    /\ sp_records = <<>>
    /\ global_records = <<>>
    /\ yt_records = <<>>
    /\ loaded = [sp |-> <<>>, global |-> <<>>, yt |-> <<>>]
    /\ SetKBInit
    /\ sp_enriched = <<>>
    /\ global_enriched = <<>>
    /\ yt_enriched = <<>>
    /\ integrated = <<>>
    /\ output_records = <<>>

SpecTracks == InitTracks /\ [][NextRun]_vars
SpecAlbums == InitAlbums /\ [][NextRun]_vars
SpecArtists == InitArtists /\ [][NextRun]_vars
SpecOwned == InitOwned /\ [][NextRun]_vars
SpecIdentity == InitIdentity /\ [][NextStepwise]_vars
SpecBuild == InitIdentity /\ [][NextBuild]_vars
SpecEnrich == InitEnrich /\ [][NextRun]_vars
SpecShapes == InitShapes /\ [][NextRun]_vars
SpecClean == InitClean /\ [][NextTransform]_vars
SpecLoad == InitLoad /\ [][NextLoad]_vars
SpecMergeInfo == InitMergeInfo /\ [][NextMergeInfo]_vars

----------------------------------------------------------------------------
(* Properties *)

\* the enriched streams in the order in which they are folded
Folded == sp_enriched \o global_enriched \o yt_enriched

\* priority of the stream that holds Folded[n]: 1 is the highest
StreamOf(n) ==
    IF n <= Len(sp_enriched) THEN 1
    ELSE IF n <= Len(sp_enriched) + Len(global_enriched) THEN 2
    ELSE 3

HasTid(rec) == Truthy(DGet(rec.track, "track_id"))
TidOf(rec) == PyStr(DGet(rec.track, "track_id"))

\* the catalog entry written for a track id
Entry(tid) == CHOOSE e \in {output_records[n] : n \in 1..Len(output_records)} :
                 e.track_id = tid
InCatalog(tid) == \E n \in 1..Len(output_records) : output_records[n].track_id = tid

HasValue(v) == v \notin {Absent, None, EmptyStr, EmptyList, EmptyDict}
NonNull(v) == v # Absent /\ v # None

\* Folded[n] is the first record of the fold that has its track id
FirstOfTid(n) ==
    /\ HasTid(Folded[n])
    /\ \A m \in 1..(n - 1) : HasTid(Folded[m]) => TidOf(Folded[m]) # TidOf(Folded[n])

\* C1 as stated: for R1 in a higher-priority stream and R2 in a lower-priority
\* stream with the same track_id, every track and album field that is non-null
\* in R1 has R1's value in the catalog entry.
C1_NonNullOfAnyHigherRecordWins ==
    pc = "done" =>
      \A m, n \in 1..Len(Folded) :
        (/\ StreamOf(m) < StreamOf(n)
         /\ HasTid(Folded[m]) /\ HasTid(Folded[n])
         /\ TidOf(Folded[m]) = TidOf(Folded[n]))
        => /\ \A f \in TrackKeys :
                NonNull(Folded[m].track[f])
                => Entry(TidOf(Folded[m])).track[f] = Folded[m].track[f]
           /\ \A f \in AlbumKeys :
                NonNull(Folded[m].album[f])
                => Entry(TidOf(Folded[m])).album[f] = Folded[m].album[f]

\* C1 (amended): after the fold, for the first record R1 of the fold order
\* that has a given track_id and every later record with that track_id, every
\* track field and album field that has a value in R1 (not None, "", [] or {})
\* has exactly R1's value in the catalog entry.
C1_FirstWriterWins ==
    pc = "done" =>
      \A m \in 1..Len(Folded) :
        FirstOfTid(m)
        => /\ InCatalog(TidOf(Folded[m]))
           /\ \A f \in TrackKeys :
                HasValue(Folded[m].track[f])
                => Entry(TidOf(Folded[m])).track[f] = Folded[m].track[f]
           /\ \A f \in AlbumKeys :
                HasValue(Folded[m].album[f])
                => Entry(TidOf(Folded[m])).album[f] = Folded[m].album[f]

\* a finished run in which a lower-priority record holds another value for a
\* field that the first record of its track has
C1_Witness ==
    /\ pc = "done"
    /\ \E m, n \in 1..Len(Folded) :
         /\ FirstOfTid(m)
         /\ StreamOf(m) < StreamOf(n)
         /\ HasTid(Folded[n]) /\ TidOf(Folded[n]) = TidOf(Folded[m])
         /\ HasValue(Folded[m].track["track_name"])
         /\ HasValue(Folded[n].track["track_name"])
         /\ Folded[n].track["track_name"] # Folded[m].track["track_name"]
         /\ HasValue(Folded[m].album["album_type"])
         /\ HasValue(Folded[n].album["album_type"])
         /\ Folded[n].album["album_type"] # Folded[m].album["album_type"]

\* the loaded records in the order of all_records; Folded[n] is the enriched
\* LoadedAll[n]
LoadedAll == loaded.sp \o loaded.global \o loaded.yt

Usable(name) == _normalize_name(IF name = Absent THEN None ELSE name) # None

\* C2 as stated: every artist reference of every enriched record has a
\* non-null artist_id and every enriched record's album a non-null album_id.
C2_EveryReferenceHasId ==
    \A n \in 1..Len(Folded) :
      /\ \A p \in 1..Len(Folded[n].artists) :
            NonNull(Folded[n].artists[p]["artist_id"])
      /\ NonNull(Folded[n].album["album_id"])

\* C2 (amended): after _build_knowledge and _apply_ids_and_enrich, every artist
\* reference whose artist_name normalizes to a non-empty name has a non-empty
\* artist_id, and every album whose album_name is a non-empty value that
\* normalizes to a non-empty name has a non-empty album_id.
C2_NamedReferenceHasId ==
    \A n \in 1..Len(Folded) :
      /\ \A p \in 1..Len(Folded[n].artists) :
            Usable(Folded[n].artists[p]["artist_name"])
            => Truthy(Folded[n].artists[p]["artist_id"])
      /\ (Truthy(Folded[n].album["album_name"])
          /\ Usable(Folded[n].album["album_name"]))
            => Truthy(Folded[n].album["album_id"])

\* an enriched record whose artist and album were loaded with a name and
\* without an id
C2_Witness ==
    \E n \in 1..Len(Folded) :
      /\ LoadedAll[n].artists # <<>>
      /\ ~Truthy(LoadedAll[n].artists[1]["artist_id"])
      /\ Usable(LoadedAll[n].artists[1]["artist_name"])
      /\ Truthy(Folded[n].artists[1]["artist_id"])
      /\ ~Truthy(LoadedAll[n].album["album_id"])
      /\ Usable(LoadedAll[n].album["album_name"])
      /\ Truthy(Folded[n].album["album_id"])

\* the album identity of a loaded record: normalized album name and owning
\* artist (the owner id, else the record's first artist)
NamedAlbum(rec) == Usable(rec.album["album_name"])
AlbumIdentity(rec) ==
    <<_normalize_name(DGet(rec.album, "album_name")),
      IF Truthy(DGet(rec.album, "album_artist_owner_id"))
      THEN DGet(rec.album, "album_artist_owner_id")
      ELSE IF rec.artists # <<>>
           THEN _normalize_name(DGet(rec.artists[1], "artist_name"))
           ELSE None>>

\* the natural album ids that the batch holds for an album identity
NaturalAlbumIds(ident) ==
    {LoadedAll[m].album["album_id"] : m \in
        {j \in 1..Len(LoadedAll) :
            /\ NamedAlbum(LoadedAll[j])
            /\ AlbumIdentity(LoadedAll[j]) = ident
            /\ Truthy(LoadedAll[j].album["album_id"])}}

\* C3: a record that refers, without an album_id of its own, to an album
\* identity for which the batch holds a natural album_id carries that natural
\* id after enrichment.
C3_NaturalAlbumIdWins ==
    \A n \in 1..Len(Folded) :
      (/\ NamedAlbum(LoadedAll[n])
       /\ ~Truthy(LoadedAll[n].album["album_id"])
       /\ NaturalAlbumIds(AlbumIdentity(LoadedAll[n])) # {})
      => Folded[n].album["album_id"] \in NaturalAlbumIds(AlbumIdentity(LoadedAll[n]))

Enriching == pc \in {"enrich_sp", "enrich_global", "enrich_yt"}

\* C4: no step of _apply_ids_and_enrich adds an entry to, or changes an entry
\* of, artist_name_to_id or album_key_to_id.
C4_MapsReadOnlyAfterResolve ==
    [][Enriching => /\ artist_name_to_id' = artist_name_to_id
                    /\ album_key_to_id' = album_key_to_id]_vars

\* the scan of _build_knowledge over the loaded batch
KBScan == FoldLeft(ScanRecord, EmptyKB, LoadedAll)

EnrichNext(acc, rec) ==
    [kb |-> EnrichRecord(acc.kb, rec).kb,
     out |-> Append(acc.out, EnrichRecord(acc.kb, rec).rec)]

\* the catalog of a run on the loaded batch in which the set of pending
\* artist names is iterated in the order names and the set of pending album
\* keys in the order keys
RunWith(names, keys) ==
    LET k == Phase2(KBScan, names, keys)
        enriched == FoldLeft(EnrichNext, [kb |-> k, out |-> <<>>], LoadedAll).out
        integ == FoldLeft(IntegrateRecord, <<>>, enriched)
    IN  [n \in 1..Len(integ) |-> OutputRecord(integ[n])]

\* C5: the catalog of a finished run is the catalog of every run on the same
\* three streams, whatever the orders in which the two sets are iterated.
C5_CatalogIndependentOfSetOrder ==
    pc = "done" =>
      \A names \in Orders(KBScan.artist_names_without_id) :
      \A keys \in Orders(KBScan.album_keys_without_id) :
         RunWith(names, keys) = output_records

NormOf(ref) == _normalize_name(DGet(ref, "artist_name"))

\* two entries of an artists list resolve to the same artist identity: the
\* same artist_id, or, when neither has an id, the same normalized name
SameArtist(a, b) ==
    IF Truthy(DGet(a, "artist_id")) \/ Truthy(DGet(b, "artist_id"))
    THEN DGet(a, "artist_id") = DGet(b, "artist_id")
    ELSE NormOf(a) # None /\ NormOf(a) = NormOf(b)

\* C6: the catalog has one entry per track_id and no entry's artists list
\* holds two entries of the same artist identity.
C6_OneEntryPerTrackAndArtist ==
    pc = "done" =>
      /\ \A m, n \in 1..Len(output_records) :
            m # n => output_records[m].track_id # output_records[n].track_id
      /\ \A n \in 1..Len(output_records) :
         \A p, q \in 1..Len(output_records[n].artists) :
            p # q => ~SameArtist(output_records[n].artists[p],
                                 output_records[n].artists[q])

\* every artist reference of the loaded batch, in batch order
AllRefs == FoldLeft(LAMBDA acc, rec : acc \o rec.artists, <<>>, LoadedAll)

NamesInBatch ==
    LET refs == AllRefs
    IN  {NormOf(refs[r]) : r \in 1..Len(refs)} \ {None}

\* positions of the references named N that carry an id
WithId(N) ==
    LET refs == AllRefs
    IN  {r \in 1..Len(refs) :
            NormOf(refs[r]) = N /\ Truthy(DGet(refs[r], "artist_id"))}

Min(set) == CHOOSE r \in set : \A t \in set : r <= t

CanonicalId(N) ==
    LET with == WithId(N)
    IN  IF with # {} THEN AllRefs[Min(with)]["artist_id"]
        ELSE S(<<"synth:artist:">> \o Tail(N))

\* C7: after _build_knowledge every normalized artist name N of the batch is
\* mapped to the id of the first reference named N that carries one, or to
\* synth:artist:N when there is none; after enrichment every reference named N
\* without an id of its own carries that id.
C7_ArtistCanonicalId ==
    pc # "build" =>
      LET canonical == [N \in NamesInBatch |-> CanonicalId(N)]
      IN  /\ \A N \in NamesInBatch :
                Has(artist_name_to_id, N) /\ Get(artist_name_to_id, N) = canonical[N]
          /\ \A n \in 1..Len(Folded) :
             \A p \in 1..Len(LoadedAll[n].artists) :
                (/\ ~Truthy(DGet(LoadedAll[n].artists[p], "artist_id"))
                 /\ NormOf(LoadedAll[n].artists[p]) # None)
                => Folded[n].artists[p]["artist_id"]
                      = canonical[NormOf(LoadedAll[n].artists[p])]

\* a finished run on a batch where a name comes with two different ids and
\* also without id, and another name comes without any id
C7_Witness ==
    /\ pc = "done"
    /\ \E N \in NamesInBatch :
         /\ Cardinality({AllRefs[r]["artist_id"] : r \in WithId(N)}) = 2
         /\ \E r \in 1..Len(AllRefs) :
               NormOf(AllRefs[r]) = N /\ ~Truthy(DGet(AllRefs[r], "artist_id"))

\* names that the references with id X have in the records of track tid of
\* the highest-priority stream that has such a reference
RefsOfIn(tid, X, stream) ==
    {<<h, r>> \in (1..Len(Folded)) \X (1..2) :
        /\ StreamOf(h) = stream
        /\ HasTid(Folded[h]) /\ TidOf(Folded[h]) = tid
        /\ r <= Len(Folded[h].artists)
        /\ Folded[h].artists[r]["artist_id"] = X}

HighestWith(tid, X) == Min({st \in 1..3 : RefsOfIn(tid, X, st) # {}})

\* C8: for a track of two sources, a reference without id in one source and a
\* reference of the same normalized name in the other (without id, or with
\* the id the name resolves to) give exactly one entry of the catalog's
\* artists list; its id is a natural id of the name when the batch has one,
\* else synth:artist:<name>; its artist_name is the one of the
\* higher-priority source.
C8_ArtistDeduplicatedAcrossSources ==
    pc = "done" =>
      \A m, n \in 1..Len(Folded) :
        (/\ StreamOf(m) # StreamOf(n)
         /\ HasTid(Folded[m]) /\ HasTid(Folded[n])
         /\ TidOf(Folded[m]) = TidOf(Folded[n]))
        => \A p \in 1..Len(LoadedAll[m].artists) :
           \A q \in 1..Len(LoadedAll[n].artists) :
             LET a == LoadedAll[m].artists[p]
                 b == LoadedAll[n].artists[q]
                 N == NormOf(a)
                 X == Get(artist_name_to_id, N)
                 tid == TidOf(Folded[m])
                 e == Entry(tid).artists
                 hits == {r \in 1..Len(e) : e[r]["artist_id"] = X}
             IN  (/\ N # None /\ NormOf(b) = N
                  /\ ~Truthy(DGet(a, "artist_id"))
                  /\ (~Truthy(DGet(b, "artist_id")) \/ DGet(b, "artist_id") = X))
                 => /\ Cardinality(hits) = 1
                    /\ IF WithId(N) # {}
                       THEN X \in {AllRefs[r]["artist_id"] : r \in WithId(N)}
                       ELSE X = S(<<"synth:artist:">> \o Tail(N))
                    /\ \A r \in hits :
                         e[r]["artist_name"] \in
                           {Folded[hr[1]].artists[hr[2]]["artist_name"] :
                              hr \in RefsOfIn(tid, X, HighestWith(tid, X))}

\* a finished run with the two cases: a reference without id meets, in a
\* lower-priority source of the same track, a reference with the natural id
\* and another spelling of the name
C8_Witness ==
    /\ pc = "done"
    /\ \E m, n \in 1..Len(Folded) :
         /\ StreamOf(m) < StreamOf(n)
         /\ HasTid(Folded[m]) /\ TidOf(Folded[m]) = TidOf(Folded[n])
         /\ LoadedAll[m].artists # <<>> /\ LoadedAll[n].artists # <<>>
         /\ ~Truthy(DGet(LoadedAll[m].artists[1], "artist_id"))
         /\ NormOf(LoadedAll[m].artists[1]) # None
         /\ NormOf(LoadedAll[n].artists[1]) = NormOf(LoadedAll[m].artists[1])
         /\ LoadedAll[n].artists[1]["artist_name"] # LoadedAll[m].artists[1]["artist_name"]
         /\ LoadedAll[n].artists[1]["artist_id"]
               = Get(artist_name_to_id, NormOf(LoadedAll[m].artists[1]))

\* C9: _merge_info(base, new) keeps every field that has a value in base
\* (0 and False are values), gives every field that is absent or empty in
\* base and non-null in new the value of new, ignores the nulls of new,
\* removes no field, turns {a: 1} and {a: 2, b: 3} into {a: 1, b: 3}, and
\* changes nothing when the same new is merged again.
C9_SoftMerge ==
    /\ mi_calls >= 1 =>
         /\ \A k \in MiKeys :
              /\ HasValue(mi_base0[k]) => mi_base[k] = mi_base0[k]
              /\ (~HasValue(mi_base0[k]) /\ NonNull(mi_new[k]))
                    => mi_base[k] = mi_new[k]
              /\ ~NonNull(mi_new[k]) => mi_base[k] = mi_base0[k]
              /\ mi_base0[k] # Absent => mi_base[k] # Absent
         /\ (/\ mi_base0 = [a |-> IntV(<<"1">>), b |-> Absent]
             /\ mi_new = [a |-> IntV(<<"2">>), b |-> IntV(<<"3">>)])
            => mi_base = [a |-> IntV(<<"1">>), b |-> IntV(<<"3">>)]
    /\ mi_calls >= 2 => mi_base = mi_prev

\* {a: 0} merged twice with {a: 2, b: 3}
C9_Witness ==
    /\ mi_calls = 2
    /\ mi_base0 = [a |-> Zero, b |-> Absent]
    /\ mi_new = [a |-> IntV(<<"2">>), b |-> IntV(<<"3">>)]
    /\ mi_base = [a |-> Zero, b |-> IntV(<<"3">>)]

Integrating == pc \in {"integrate_sp", "integrate_global", "integrate_yt"}

\* number of records that _integrate has treated
IntegratedCount ==
    CASE pc = "integrate_sp" -> idx
      [] pc = "integrate_global" -> Len(sp_enriched) + idx
      [] pc = "integrate_yt" -> Len(sp_enriched) + Len(global_enriched) + idx
      [] pc \in {"write", "done"} -> Len(Folded)
      [] OTHER -> 0

\* C10: the keys of the catalog are the string forms of the non-empty
\* track_ids of the records treated so far, and the step that treats a record
\* without track_id leaves the catalog as it is and moves on to the next
\* record.
C10_RecordsWithoutTrackIdAreDropped ==
    /\ [](KeySet(integrated) =
            {TidOf(Folded[n]) :
               n \in {j \in 1..IntegratedCount : HasTid(Folded[j])}})
    /\ [][(Integrating /\ ~HasTid(Folded[IntegratedCount + 1]))
            => /\ integrated' = integrated
               /\ IntegratedCount' = IntegratedCount + 1]_vars

\* a finished run in which a record without track_id came before a record
\* with one in the same stream, and a numeric track_id was keyed by its digits
C10_Witness ==
    /\ pc = "done"
    /\ \E m, n \in 1..Len(Folded) :
         /\ m < n /\ StreamOf(m) = StreamOf(n)
         /\ ~HasTid(Folded[m])
         /\ Folded[n].track["track_id"] = IntV(<<"7">>)
         /\ InCatalog(S(<<"7">>))
         /\ Len(output_records) = 1

\* everything the run holds besides the position of its loops
RunData == <<recvars, kbvars, enrvars, integrated, output_records>>

\* the step of _integrate that meets a record without track_id
DropStep == Integrating /\ ~HasTid(Folded[IntegratedCount + 1])

\* C11: every record dropped from the merge for lack of a track_id increments
\* a dropped-record counter, so the step that drops a record changes something
\* the run holds besides the position of its loop.
C11_DroppedRecordIsCounted ==
    [][DropStep => RunData' # RunData]_vars

AlbumNorm(rec) ==
    IF Truthy(DGet(rec.album, "album_name"))
    THEN _normalize_name(DGet(rec.album, "album_name")) ELSE None
OwnerOf(rec) == DGet(rec.album, "album_artist_owner_id")

\* no record of the batch holds an album_id for the album N of the owner O
NoAlbumIdInBatch(N, O) ==
    \A j \in 1..Len(LoadedAll) :
       (AlbumNorm(LoadedAll[j]) = N /\ OwnerOf(LoadedAll[j]) = O)
       => ~Truthy(DGet(LoadedAll[j].album, "album_id"))

OwnedSynthId(N, O) ==
    S(<<"synth:album:">> \o Tail(N) \o <<"::owner:">> \o Tail(PyStr(O)))

\* the records m and n are of different sources and name, without album_id
\* anywhere in the batch, the same album of the same explicit owner
SameOwnedAlbum(m, n) ==
    /\ StreamOf(m) # StreamOf(n)
    /\ AlbumNorm(LoadedAll[m]) # None
    /\ AlbumNorm(LoadedAll[m]) = AlbumNorm(LoadedAll[n])
    /\ Truthy(OwnerOf(LoadedAll[m]))
    /\ OwnerOf(LoadedAll[m]) = OwnerOf(LoadedAll[n])
    /\ NoAlbumIdInBatch(AlbumNorm(LoadedAll[m]), OwnerOf(LoadedAll[m]))

BothCarryOwnedSynthId(m, n) ==
    LET id == OwnedSynthId(AlbumNorm(LoadedAll[m]), OwnerOf(LoadedAll[m]))
    IN  Folded[m].album["album_id"] = id /\ Folded[n].album["album_id"] = id

SameTrack(m, n) ==
    HasTid(Folded[m]) /\ HasTid(Folded[n]) /\ TidOf(Folded[m]) = TidOf(Folded[n])

\* C12 as stated: two such records both carry synth:album:<name>::owner:O
\* after enrichment, and when they share a track_id the album of the catalog
\* entry of that track has that id.
C12_OwnedAlbumOneSyntheticId ==
    \A m, n \in 1..Len(Folded) :
      SameOwnedAlbum(m, n)
      => /\ BothCarryOwnedSynthId(m, n)
         /\ (pc = "done" /\ SameTrack(m, n))
            => Entry(TidOf(Folded[m])).album["album_id"]
                 = OwnedSynthId(AlbumNorm(LoadedAll[m]), OwnerOf(LoadedAll[m]))

\* no record of the track of Folded[m] that is folded before the records m
\* and n brings an album_id other than id
NoOtherAlbumIdBefore(m, n, id) ==
    \A j \in 1..Len(Folded) :
       (j < m /\ j < n /\ SameTrack(j, m))
       => (~HasValue(Folded[j].album["album_id"])
           \/ Folded[j].album["album_id"] = id)

\* C12 (amended): two such records both carry synth:album:<name>::owner:O
\* after enrichment, and when they share a track_id and no record of that
\* track folded before them has another album_id, the album of the catalog
\* entry of that track has that id.
C12_OwnedAlbumOneSyntheticIdUnlessEarlierId ==
    \A m, n \in 1..Len(Folded) :
      SameOwnedAlbum(m, n)
      => LET id == OwnedSynthId(AlbumNorm(LoadedAll[m]), OwnerOf(LoadedAll[m]))
         IN  /\ BothCarryOwnedSynthId(m, n)
             /\ (pc = "done" /\ SameTrack(m, n) /\ NoOtherAlbumIdBefore(m, n, id))
                => Entry(TidOf(Folded[m])).album["album_id"] = id

\* a finished run with two such records of one track, spelled differently,
\* whose catalog entry has the synthetic id
C12_Witness ==
    /\ pc = "done"
    /\ \E m, n \in 1..Len(Folded) :
         /\ SameOwnedAlbum(m, n) /\ SameTrack(m, n)
         /\ LoadedAll[m].album["album_name"] # LoadedAll[n].album["album_name"]
         /\ Entry(TidOf(Folded[m])).album["album_id"] 
              = S(<<"synth:album:", "x", "::owner:", "A1">>)

\* every entry of the map old is an entry of the map new
Kept(old, new) ==
    \A i \in 1..Len(old) : Has(new, old[i][1]) /\ Get(new, old[i][1]) = old[i][2]

\* C13: no step of the run (a record of the scan, an iteration of the
\* synthetic-id and consolidation loops, a record of the enricher, or any
\* later one) changes or removes an entry that artist_name_to_id or
\* album_key_to_id already holds.
C13_IdentityMapsWriteOnce ==
    [][/\ Kept(artist_name_to_id, artist_name_to_id')
       /\ Kept(album_key_to_id, album_key_to_id')]_vars

\* a finished run on a batch where a name comes with two natural artist ids
\* and an album key with two natural album ids: both maps hold the first
C13_Witness ==
    /\ pc = "done"
    /\ \E r1, r2 \in 1..Len(AllRefs) :
         /\ r1 < r2
         /\ NormOf(AllRefs[r1]) # None /\ NormOf(AllRefs[r1]) = NormOf(AllRefs[r2])
         /\ Truthy(AllRefs[r1]["artist_id"]) /\ Truthy(AllRefs[r2]["artist_id"])
         /\ AllRefs[r1]["artist_id"] # AllRefs[r2]["artist_id"]
         /\ Get(artist_name_to_id, NormOf(AllRefs[r1])) = AllRefs[r1]["artist_id"]
    /\ \E m, n \in 1..Len(LoadedAll) :
         LET key == ScanAlbumKey(LoadedAll[m].album, LoadedAll[m].artists) IN
         /\ m < n
         /\ key = ScanAlbumKey(LoadedAll[n].album, LoadedAll[n].artists)
         /\ Truthy(LoadedAll[m].album["album_id"])
         /\ Truthy(LoadedAll[n].album["album_id"])
         /\ LoadedAll[m].album["album_id"] # LoadedAll[n].album["album_id"]
         /\ Get(album_key_to_id, key) = LoadedAll[m].album["album_id"]

\* _build_knowledge has returned and no record has been enriched yet
JustBuilt ==
    /\ pc \notin {"build", "mint_artists", "merge_artists", "mint_albums",
                  "merge_albums", "merge_info"}
    /\ Folded = <<>>

\* the album keys that the scan forms on the batch
KeysInBatch ==
    {ScanAlbumKey(LoadedAll[n].album, LoadedAll[n].artists) :
        n \in {j \in 1..Len(LoadedAll) : Truthy(DGet(LoadedAll[j].album, "album_name"))}}

\* C14: when _build_knowledge returns, every normalized artist name of the
\* batch is a key of artist_name_to_id, every album key formed during the scan
\* is a key of album_key_to_id, and every id in the range of either map has an
\* entry in artist_id_to_info, respectively album_id_to_info.
C14_TotalAfterResolution ==
    JustBuilt =>
      /\ \A N \in NamesInBatch : Has(artist_name_to_id, N)
      /\ \A key \in KeysInBatch : Has(album_key_to_id, key)
      /\ \A i \in 1..Len(artist_name_to_id) :
            Has(artist_id_to_info, artist_name_to_id[i][2])
      /\ \A i \in 1..Len(album_key_to_id) :
            Has(album_id_to_info, album_key_to_id[i][2])

\* _build_knowledge has returned on a batch with a name and an album key that
\* have a natural id and a name and an album key that have none
C14_Witness ==
    /\ JustBuilt
    /\ \E N1, N2 \in NamesInBatch :
         /\ WithId(N1) # {}
         /\ WithId(N2) = {} /\ Get(artist_name_to_id, N2) = SynthArtistId(N2)
    /\ \E k1, k2 \in KeysInBatch :
         /\ Get(album_key_to_id, k1) \in
               {LoadedAll[n].album["album_id"] : n \in 1..Len(LoadedAll)}
         /\ Get(album_key_to_id, k2) = SynthAlbumId(k2[1], k2[2])

\* the references, by position in batch order, that carry the artist id X
Carriers(X) == {r \in 1..Len(AllRefs) : DGet(AllRefs[r], "artist_id") = X}

\* the references whose normalized name resolves to X
ResolvingTo(X) ==
    {r \in 1..Len(AllRefs) :
        /\ NormOf(AllRefs[r]) # None
        /\ Has(artist_name_to_id, NormOf(AllRefs[r]))
        /\ Get(artist_name_to_id, NormOf(AllRefs[r])) = X}

\* C15 as stated: after _build_knowledge, artist_id_to_info[X][f] is the value
\* of f in the first reference, in batch order, that has a non-null f and
\* carries artist_id X or has a normalized name that resolves to X.
C15_FirstNonNullReferenceWins ==
    JustBuilt =>
      \A i \in 1..Len(artist_id_to_info) : \A f \in ArtistKeys :
        LET X == artist_id_to_info[i][1]
            first == {r \in Carriers(X) \cup ResolvingTo(X) : NonNull(AllRefs[r][f])}
        IN  first # {} => artist_id_to_info[i][2][f] = AllRefs[Min(first)][f]

\* X is the synthetic id that Fase 2 makes for a name of the batch
MintedFor(X) == {N \in NamesInBatch : WithId(N) = {} /\ SynthArtistId(N) = X}

\* C15 (amended): after _build_knowledge, for an artist id X that Fase 2 did
\* not make, artist_id_to_info[X][f] is the value of f in the first reference
\* in batch order that carries artist_id X and has a value for f (not None,
\* "", [] or {}), when there is one; for a synthetic id X that Fase 2 made for
\* the name N, it is the value of f in the first reference named N that has a
\* value for f, when there is one.
C15_FirstCarrierWins ==
    JustBuilt =>
      \A i \in 1..Len(artist_id_to_info) : \A f \in ArtistKeys :
        LET X == artist_id_to_info[i][1]
            valued == {r \in Carriers(X) : HasValue(AllRefs[r][f])}
        IN  /\ (MintedFor(X) = {} /\ valued # {})
               => artist_id_to_info[i][2][f] = AllRefs[Min(valued)][f]
            /\ \A N \in MintedFor(X) :
                 LET named == {r \in 1..Len(AllRefs) :
                                  NormOf(AllRefs[r]) = N /\ HasValue(AllRefs[r][f])}
                 IN  named # {} => artist_id_to_info[i][2][f] = AllRefs[Min(named)][f]

\* _build_knowledge has returned on a batch in which a reference without id
\* and with genres comes before a reference of the same name that carries an
\* id and other genres
C15_Witness ==
    /\ JustBuilt
    /\ \E r1, r2 \in 1..Len(AllRefs) :
         /\ r1 < r2
         /\ NormOf(AllRefs[r1]) # None /\ NormOf(AllRefs[r1]) = NormOf(AllRefs[r2])
         /\ ~Truthy(AllRefs[r1]["artist_id"])
         /\ Truthy(AllRefs[r2]["artist_id"])
         /\ HasValue(AllRefs[r1]["artist_genres"])
         /\ HasValue(AllRefs[r2]["artist_genres"])
         /\ AllRefs[r1]["artist_genres"] # AllRefs[r2]["artist_genres"]
         /\ Get(artist_id_to_info, AllRefs[r2]["artist_id"])["artist_genres"]
               = AllRefs[r2]["artist_genres"]

\* the batch in every order of its records
Reorderings(s) ==
    {[i \in 1..Len(s) |-> s[o[i]]] : o \in Orders(1..Len(s))}

\* what _build_knowledge returns on the batch recs, the two sets being
\* iterated in the orders names and keys
BuildOn(recs, names, keys) == Phase2(FoldLeft(ScanRecord, EmptyKB, recs), names, keys)

\* a dict as Python compares dicts: the items without their order
Items(d) == {d[i] : i \in 1..Len(d)}

Returned(k) ==
    <<Items(k.artist_name_to_id), Items(k.artist_id_to_info),
      Items(k.album_key_to_id), Items(k.album_id_to_info)>>

ReturnedKeys(k) ==
    <<KeySet(k.artist_name_to_id), KeySet(k.artist_id_to_info),
      KeySet(k.album_key_to_id), KeySet(k.album_id_to_info)>>

\* C16: the four maps that _build_knowledge returns are the same for every
\* permutation of the input records (the two sets being iterated in some
\* order that gives them).
C16_KnowledgeIndependentOfRecordOrder ==
    JustBuilt =>
      \A recs \in Reorderings(LoadedAll) :
        LET scan == FoldLeft(ScanRecord, EmptyKB, recs)
        IN  \E names \in Orders(scan.artist_names_without_id) :
            \E keys \in Orders(scan.album_keys_without_id) :
               Returned(Phase2(scan, names, keys)) = Returned(KB)

\* one of the orders in which a set can be iterated
SomeOrder(set) == CHOOSE o \in Orders(set) : TRUE

\* C16 (amended): the four maps that _build_knowledge returns have the same
\* keys for every permutation of the input records.  The run that is checked
\* takes the two sets in every order and every batch in every order of its
\* records; each is compared with every reordering of its batch, the sets of
\* the reordering being taken in one order.
C16_KeysIndependentOfRecordOrder ==
    JustBuilt =>
      \A recs \in Reorderings(LoadedAll) :
        LET scan == FoldLeft(ScanRecord, EmptyKB, recs)
            k == Phase2(scan, SomeOrder(scan.artist_names_without_id),
                        SomeOrder(scan.album_keys_without_id))
        IN  ReturnedKeys(k) = ReturnedKeys(KB)

\* _build_knowledge has returned on a batch whose other order gives other
\* maps: a name with two natural ids, an album key with two natural ids
C16_Witness ==
    /\ JustBuilt
    /\ Len(LoadedAll) >= 2
    /\ \E recs \in Reorderings(LoadedAll) :
         LET k == BuildOn(recs, <<>>, <<>>)
         IN  /\ k.artist_names_without_id = {} /\ k.album_keys_without_id = {}
             /\ Items(k.artist_name_to_id) # Items(artist_name_to_id)
             /\ Items(k.album_key_to_id) # Items(album_key_to_id)
             /\ ReturnedKeys(k) = ReturnedKeys(KB)

\* _build_knowledge is running
Building ==
    pc \in {"build", "mint_artists", "merge_artists", "mint_albums", "merge_albums"}

\* every id of the table old is an id of the table new, with every value
\* that old holds for it
Grown(old, new) ==
    \A i \in 1..Len(old) :
       /\ Has(new, old[i][1])
       /\ \A f \in DOMAIN old[i][2] :
             HasValue(old[i][2][f]) => Get(new, old[i][1])[f] = old[i][2][f]

\* C17: no step of _build_knowledge (a record of the scan, an iteration of
\* the synthetic-id loops or of the consolidation loops) changes or removes a
\* value that artist_id_to_info[X] or album_id_to_info[X] holds for a field.
C17_AttributeSetsOnlyGrow ==
    [][Building => /\ Grown(artist_id_to_info, artist_id_to_info')
                   /\ Grown(album_id_to_info, album_id_to_info')]_vars

\* the dict new holds every field of the dict old, and with the value of old
\* where Valued says that old has one
Preserved(old, new, Valued(_, _)) ==
    \A f \in DOMAIN old :
       /\ old[f] # Absent => new[f] # Absent
       /\ Valued(f, old[f]) => new[f] = old[f]

\* the enriched record holds what the loaded record held
RecordPreserved(n, Valued(_, _)) ==
    /\ Preserved(LoadedAll[n].track, Folded[n].track, Valued)
    /\ Preserved(LoadedAll[n].album, Folded[n].album, Valued)
    /\ Len(Folded[n].artists) = Len(LoadedAll[n].artists)
    /\ \A p \in 1..Len(LoadedAll[n].artists) :
          Preserved(LoadedAll[n].artists[p], Folded[n].artists[p], Valued)

\* C18 as stated: _apply_ids_and_enrich removes no field of a track, an album
\* or an artist reference and changes no field that is neither absent nor
\* null.
C18_EnrichmentSetsOnlyNullFields ==
    \A n \in 1..Len(Folded) : RecordPreserved(n, LAMBDA f, v : NonNull(v))

IdFields == {"artist_id", "album_id", "album_artist_owner_id"}

\* C18 (amended): _apply_ids_and_enrich removes no field and changes no field
\* that has a value: for artist_id, album_id and album_artist_owner_id a
\* truthy value, for every other field a value other than None, "", [], {}.
C18_EnrichmentSetsOnlyMissingFields ==
    \A n \in 1..Len(Folded) :
       RecordPreserved(n, LAMBDA f, v : IF f \in IdFields THEN Truthy(v)
                                        ELSE HasValue(v))

\* a record was enriched with an id, an owner and attributes of the knowledge
\* base next to values of its own that differ from the knowledge base's
C18_Witness ==
    \E n \in 1..Len(Folded) :
      /\ LoadedAll[n].artists # <<>>
      /\ ~Truthy(LoadedAll[n].artists[1]["artist_id"])
      /\ Truthy(Folded[n].artists[1]["artist_id"])
      /\ HasValue(LoadedAll[n].artists[1]["artist_genres"])
      /\ Get(artist_id_to_info, Folded[n].artists[1]["artist_id"])["artist_genres"]
            # LoadedAll[n].artists[1]["artist_genres"]
      /\ ~Truthy(LoadedAll[n].album["album_id"])
      /\ Truthy(Folded[n].album["album_id"])
      /\ ~Truthy(LoadedAll[n].album["album_artist_owner_id"])
      /\ Truthy(Folded[n].album["album_artist_owner_id"])
      /\ HasValue(LoadedAll[n].album["album_type"])

\* every record of the batch has been enriched
AllEnriched == Len(Folded) = Len(LoadedAll)

\* the loaded records m and n hold the same album_id, or name the same album
\* of the same owning artist: the same normalized album name, the same owner
\* as loaded (its id, or else the normalized name of the first artist) and
\* the same album_artist_owner_id once enriched
SameAlbum(m, n) ==
    \/ /\ Truthy(DGet(LoadedAll[m].album, "album_id"))
       /\ DGet(LoadedAll[m].album, "album_id") = DGet(LoadedAll[n].album, "album_id")
    \/ /\ NamedAlbum(LoadedAll[m]) /\ NamedAlbum(LoadedAll[n])
       /\ AlbumIdentity(LoadedAll[m]) = AlbumIdentity(LoadedAll[n])
       /\ OwnerOf(Folded[m]) = OwnerOf(Folded[n])

\* C19: after enrichment, for all records whose albums share an album_id or
\* the album identity, every album field that is non-null on one of them in
\* the input is non-null on all of them in the output.
C19_AlbumAttributesPropagated ==
    AllEnriched =>
      \A m, n \in 1..Len(Folded) :
        SameAlbum(m, n)
        => \A f \in AlbumKeys :
              NonNull(LoadedAll[m].album[f]) => NonNull(Folded[n].album[f])

\* the references r and s of the batch carry the same artist_id or have the
\* same normalized name
SameArtistRef(r, s) ==
    \/ /\ Truthy(DGet(AllRefs[r], "artist_id"))
       /\ DGet(AllRefs[r], "artist_id") = DGet(AllRefs[s], "artist_id")
    \/ /\ NormOf(AllRefs[r]) # None
       /\ NormOf(AllRefs[r]) = NormOf(AllRefs[s])

\* every artist reference of the enriched batch, in batch order
AllEnrichedRefs == FoldLeft(LAMBDA acc, rec : acc \o rec.artists, <<>>, Folded)

\* C20: after enrichment, for all artist references that share an artist_id
\* or a normalized name, every field that is non-null on one of them in the
\* input is non-null on all of them in the output.
C20_ArtistAttributesPropagated ==
    AllEnriched =>
      \A r, s \in 1..Len(AllRefs) :
        SameArtistRef(r, s)
        => \A f \in ArtistKeys :
              NonNull(AllRefs[r][f]) => NonNull(AllEnrichedRefs[s][f])

\* the loaded record n has a track_id that no other record of the batch has,
\* and neither album nor artists
Bare(n) ==
    /\ HasTid(LoadedAll[n])
    /\ ~NonEmptyDict(LoadedAll[n].album)
    /\ LoadedAll[n].artists = <<>>
    /\ \A m \in 1..Len(LoadedAll) :
          (m # n /\ HasTid(LoadedAll[m])) => TidOf(LoadedAll[m]) # TidOf(LoadedAll[n])

\* C21: _build_knowledge, _apply_ids_and_enrich and the merge raise on no
\* record, whatever sub-objects, names and ids it lacks, and a record with a
\* track_id and without album and artists gives a catalog entry with an empty
\* album and an empty artists list.
C21_NoInputMakesTheCoreFail ==
    /\ pc # "raised"
    /\ pc = "done" =>
         \A n \in 1..Len(LoadedAll) :
            Bare(n) => /\ InCatalog(TidOf(LoadedAll[n]))
                       /\ Entry(TidOf(LoadedAll[n])).album = NoDict(AlbumKeys)
                       /\ Entry(TidOf(LoadedAll[n])).artists = <<>>

\* the position in the fold order of the first record that has the track id
FirstPos(tid) ==
    Min({n \in 1..Len(Folded) : HasTid(Folded[n]) /\ TidOf(Folded[n]) = tid})

\* C22: the catalog is written in the order in which the track_ids first
\* appear in the Spotify Tracks stream, then the track_data_final stream, then
\* the Spotify-YouTube stream, records without track_id being skipped, and no
\* step moves an entry that the catalog holds.
C22_OutputInOrderOfFirstAppearance ==
    /\ [](pc = "done" =>
            /\ {output_records[i].track_id : i \in 1..Len(output_records)}
                  = {TidOf(Folded[n]) : n \in {j \in 1..Len(Folded) : HasTid(Folded[j])}}
            /\ \A i, j \in 1..Len(output_records) :
                  i < j => FirstPos(output_records[i].track_id)
                             < FirstPos(output_records[j].track_id))
    /\ [][/\ Len(integrated') >= Len(integrated)
           /\ \A i \in 1..Len(integrated) : integrated'[i][1] = integrated[i][1]]_vars

\* a finished run in which two tracks were inserted and a record of a later
\* stream was then merged into the entry of the first
C22_Witness ==
    /\ pc = "done"
    /\ Len(output_records) = 2
    /\ Len(Folded) = 3
    /\ TidOf(Folded[1]) = output_records[1].track_id
    /\ TidOf(Folded[2]) = output_records[2].track_id
    /\ HasTid(Folded[3]) /\ TidOf(Folded[3]) = TidOf(Folded[1])
    /\ StreamOf(3) > StreamOf(1)
    /\ Folded[3].track # Folded[1].track

\* Folded[n] is the only record of its stream that has its track id
OnlyOfItsStream(n) ==
    \A m \in 1..Len(Folded) :
       (m # n /\ StreamOf(m) = StreamOf(n)) => ~SameTrack(m, n)

\* the track of the records a, b and c is present once in each source
InAllThree(a, b, c) ==
    /\ StreamOf(a) = 1 /\ StreamOf(b) = 2 /\ StreamOf(c) = 3
    /\ SameTrack(a, b) /\ SameTrack(b, c)
    /\ OnlyOfItsStream(a) /\ OnlyOfItsStream(b) /\ OnlyOfItsStream(c)

\* the field has no value in a and a value in b and in c
OnlyLowerHave(a, b, c) == ~HasValue(a) /\ HasValue(b) /\ HasValue(c)

\* C23: for a track present in all three sources, a track field or album
\* field that has no value in the Spotify Tracks record and a value (not None,
\* "", [] or {}) in both other records has in the catalog entry the value of
\* the track_data_final record, which is folded before the Spotify-YouTube one.
C23_EarlierFoldedSourceWins ==
    pc = "done" =>
      \A a, b, c \in 1..Len(Folded) :
        InAllThree(a, b, c)
        => /\ \A f \in TrackKeys :
                OnlyLowerHave(Folded[a].track[f], Folded[b].track[f], Folded[c].track[f])
                => Entry(TidOf(Folded[a])).track[f] = Folded[b].track[f]
           /\ \A f \in AlbumKeys :
                OnlyLowerHave(Folded[a].album[f], Folded[b].album[f], Folded[c].album[f])
                => Entry(TidOf(Folded[a])).album[f] = Folded[b].album[f]

\* a finished run on a track of all three sources whose two lower-priority
\* records hold different values for a track field and for an album field
\* that the Spotify Tracks record holds empty or null
C23_Witness ==
    /\ pc = "done"
    /\ \E a, b, c \in 1..Len(Folded) :
         /\ InAllThree(a, b, c)
         /\ OnlyLowerHave(Folded[a].track["track_name"], Folded[b].track["track_name"],
                          Folded[c].track["track_name"])
         /\ Folded[b].track["track_name"] # Folded[c].track["track_name"]
         /\ OnlyLowerHave(Folded[a].album["album_type"], Folded[b].album["album_type"],
                          Folded[c].album["album_type"])
         /\ Folded[b].album["album_type"] # Folded[c].album["album_type"]

\* what _integrate has made of the records it has treated
FoldedSoFar == FoldLeft(IntegrateRecord, <<>>, SubSeq(Folded, 1, IntegratedCount))

\* C24: _build_knowledge finishes over the three lists before a record is
\* enriched; Spotify Tracks, track_data_final and Spotify-YouTube are enriched
\* in this order and all before the first record is folded; they are folded
\* in the same order; the catalog is written once, after the last fold.
C24_PhaseOrdering ==
    /\ [](/\ pc = "build" => (Folded = <<>> /\ integrated = <<>>)
          /\ global_enriched # <<>> => Len(sp_enriched) = Len(sp_records)
          /\ yt_enriched # <<>> => Len(global_enriched) = Len(global_records)
          /\ (Integrating \/ integrated # <<>>) => AllEnriched
          /\ integrated = FoldedSoFar
          /\ pc # "done" => output_records = <<>>
          /\ pc = "done" =>
                /\ IntegratedCount = Len(Folded)
                /\ output_records
                     = [n \in 1..Len(integrated) |-> OutputRecord(integrated[n])])
    /\ [][/\ (pc = "build" /\ pc' # "build") => idx = Len(all_records)
          /\ enrvars' # enrvars => (Enriching /\ integrated' = integrated)
          /\ pc' = "done" => (pc = "write" /\ integrated' = integrated)
          /\ pc # "done"]_vars

\* a finished run in which every source had a record, two entries were
\* written and one of them was merged from two records
C24_Witness ==
    /\ pc = "done"
    /\ sp_enriched # <<>> /\ global_enriched # <<>> /\ yt_enriched # <<>>
    /\ Len(output_records) >= 2
    /\ \E n \in 1..Len(Folded) : \E m \in 1..Len(Folded) :
          m # n /\ SameTrack(m, n)

\* C25: no step of _integrate, neither the insertion of a record under an
\* unseen track_id nor the merge of a record into an entry, changes a record
\* of the enriched streams, the identity maps or the attribute tables; so a
\* merge into an entry leaves the record it was made from as it was.
C25_CatalogDoesNotAliasItsSources ==
    [][Integrating => (enrvars' = enrvars /\ kbvars' = kbvars)]_vars

\* a finished run in which the entry made from a record has got a track field
\* and an album field from a later record that the record itself has not
C25_Witness ==
    /\ pc = "done"
    /\ \E n \in 1..Len(Folded) :
         /\ FirstOfTid(n)
         /\ ~HasValue(Folded[n].track["track_name"])
         /\ HasValue(Entry(TidOf(Folded[n])).track["track_name"])
         /\ ~HasValue(Folded[n].album["album_type"])
         /\ HasValue(Entry(TidOf(Folded[n])).album["album_type"])

\* the track_id that the raw file of a source holds for the row with the
\* index label ix (for Spotify-YouTube the uri, from which it is taken)
RawTrackId(src, ix) ==
    IF src = "yt" THEN frames[src].raw.rows[ix].uri
    ELSE frames[src].raw.rows[ix].track_id

StreamOfSource(src) ==
    CASE src = "sp" -> sp_records
      [] src = "yt" -> yt_records
      [] OTHER -> global_records

\* C26: no row of a raw file whose track_id is null or missing is a row of
\* the frame that the _clean_* function of its source returns, whatever
\* string the null has become, and the records that reach the integration
\* are the rows of those frames.
C26_RowsWithoutTrackIdAreDiscarded ==
    \A src \in {"sp", "yt", "global"} :
       /\ \A n \in 1..Len(frames[src].clean.rows) :
             /\ RawTrackId(src, frames[src].clean.rows[n].index) # Absent
             /\ NotNa(RawTrackId(src, frames[src].clean.rows[n].index))
       /\ Len(StreamOfSource(src)) = Len(frames[src].clean.rows)
----------------------------------------------------------------------------
(* C27 *)

\* the album_id values of the albums DataFrame built in this run
BuiltAlbumIds == ColumnOfSeq(tables.df.albums, "album_id")

\* C27: when the tracks rows are handed to the database, every track's
\* album_id is null or the album_id of a row of the albums table built in
\* the same run, also when no album row was built
C27_TrackAlbumIdsAreAligned ==
    pc = "insert_tracks" =>
       \A n \in 1..Len(tables.df.tracks) :
          \/ tables.df.tracks[n].album_id = None
          \/ tables.df.tracks[n].album_id \in BuiltAlbumIds

----------------------------------------------------------------------------
(* C28, C30: _merge_artist_lists as _integrate calls it *)

\* the record _integrate is about to treat
CurrentRecord == Folded[IntegratedCount + 1]

\* the step of _integrate that merges a record into the entry of its track_id
MergeStep ==
    /\ Integrating
    /\ ~IntegrateRaises(CurrentRecord)
    /\ HasTid(CurrentRecord)
    /\ Has(integrated, TidOf(CurrentRecord))

\* the arguments and the result of the call of _merge_artist_lists in the step
BaseList == Get(integrated, TidOf(CurrentRecord)).artists
NewList == CurrentRecord.artists
ResultList == Get(integrated', TidOf(CurrentRecord)).artists

\* a reference with neither an artist_id nor a usable artist_name
Nameless(a) ==
    /\ ~Truthy(DGet(a, "artist_id"))
    /\ _normalize_name(DGet(a, "artist_name")) = None

Occurrences(list, a) == Cardinality({n \in 1..Len(list) : list[n] = a})

\* C28: nameless artists are never collapsed into one identity: every
\* reference without artist_id and usable artist_name of the two lists is an
\* entry of its own in the merged list, with its fields as they were.
C28_NamelessArtistsAreNotCollapsed ==
    [][MergeStep =>
         \A n \in 1..Len(BaseList \o NewList) :
            LET a == (BaseList \o NewList)[n]
            IN  Nameless(a) =>
                  Occurrences(ResultList, a) =
                     Occurrences(BaseList, a) + Occurrences(NewList, a)]_vars

\* the entries of the two lists with the key k, base list first
WithKey(k) == SelectSeq(BaseList \o NewList, LAMBDA a : key_for(a) = k)

\* the first value of the field f in a list of entries, None if none has one
RECURSIVE FirstValue(_, _)
FirstValue(entries, f) ==
    IF entries = <<>> THEN None
    ELSE IF HasValue(entries[1][f]) THEN entries[1][f]
    ELSE FirstValue(Tail(entries), f)

\* C30: _merge_artist_lists loses no information: the entry of the result
\* for an identity key holds, in every field that some entry with that key
\* has a value for, the first such value in base-list order and then
\* new-list order, also when two entries of the base list have the key.
C30_MergeArtistListsLosesNothing ==
    [][MergeStep =>
         \A n \in 1..Len(BaseList \o NewList) :
            LET k == key_for((BaseList \o NewList)[n])
            IN  k # <<"name", EmptyStr>> =>
                  \E m \in 1..Len(ResultList) :
                     /\ key_for(ResultList[m]) = k
                     /\ \A f \in ArtistKeys :
                           FirstValue(WithKey(k), f) # None
                           => ResultList[m][f] = FirstValue(WithKey(k), f)]_vars

----------------------------------------------------------------------------
(* C29 *)

\* the album keys and the artist names that hold the synthetic id made for them
SyntheticAlbumKeys ==
    {k \in KeySet(album_key_to_id) :
       Get(album_key_to_id, k) = SynthAlbumId(k[1], k[2])}
SyntheticArtistNames ==
    {n \in KeySet(artist_name_to_id) : Get(artist_name_to_id, n) = SynthArtistId(n)}

\* C29: synthetic ids are injective on identity keys: two distinct album keys
\* (normalized name, owner) never hold the same synthetic album id, and two
\* distinct normalized artist names never hold the same synthetic artist id.
C29_SyntheticIdsAreInjective ==
    /\ \A k1, k2 \in SyntheticAlbumKeys :
          k1 # k2 => Get(album_key_to_id, k1) # Get(album_key_to_id, k2)
    /\ \A n1, n2 \in SyntheticArtistNames :
          n1 # n2 => Get(artist_name_to_id, n1) # Get(artist_name_to_id, n2)


====
